---------------------------- MODULE Spec2Model ----------------------------
(***************************************************************************)
(* A model of the stack unwinder of mornyx/unwind: the public entry points *)
(* trace / trace_from_ucontext, the platform cursors (Linux DWARF cursor,  *)
(* macOS/aarch64 frame-pointer cursor) and the DWARF engine they drive     *)
(* (.eh_frame_hdr search, CIE/FDE parser, CFI interpreter, step driver).   *)
(*                                                                         *)
(* Memory is a byte-addressed partial function; every parser below reads   *)
(* it byte by byte as the Rust code does.  Values are naturals small       *)
(* enough for TLC; the images explored keep every loaded value below 2^31. *)
(***************************************************************************)
EXTENDS Integers, Sequences, FiniteSets, TLC

VARIABLES
    platform,     \* "linux_x64" | "macos_aarch64": the cursor compiled in
    mem,          \* mapped memory: address -> byte
    maps,         \* MAPS: the readable ranges the memory probe knows
    sections,     \* SECTIONS: the module index (a sequence of SectionInfo)
    registers,    \* the caller's register bank
    first_step,   \* UnwindCursor.first_step
    entry,        \* which public entry point drives the cursor
    pc,           \* position of the driver: "start" | "step" | "cb" | "done"
    ret,          \* what the entry point returned (once pc = "done")
    stepped,      \* the register banks produced by successful steps, in order
    delivered,    \* the register banks handed to the callback, in order
    cb_false,     \* TRUE once a callback invocation returned false
    last,         \* a record describing the last step call (see StepRecord)
    build,        \* what became of the dropped RememberStack temporary in run_
    snapshot,     \* the register bank the run was seeded with
    proc,         \* a process and its threads: which lazily built caches exist
    probe         \* one decoder or interpreter call on its own: input and result

vars == << platform, mem, maps, sections, registers, first_step, entry, pc, ret,
           stepped, delivered, cb_false, last, build, snapshot, proc, probe >>

-----------------------------------------------------------------------------
(* Results.  A Rust Result is "Ok"/"Err"; a panic (unreachable!,            *)
(* unimplemented!, assert!, index out of bounds) is "Abort"; a raw load     *)
(* from memory that is not mapped is "Fault" (SIGSEGV).                     *)

Ok(v) == [st |-> "Ok", v |-> v]
Err(e) == [st |-> "Err", v |-> e]
Abort(why) == [st |-> "Abort", v |-> why]
Fault(a) == [st |-> "Fault", v |-> a]

IsOk(r) == r.st = "Ok"

(* r is Ok(b), b a boolean *)
Returned(r, b) == r.st = "Ok" /\ r.v = b

(* `let v = r?; K(v)`: anything but Ok ends the function with r *)
Bind(r, K(_)) == IF r.st = "Ok" THEN K(r.v) ELSE r

-----------------------------------------------------------------------------
(* utils: load, AddressRange, address_is_readable, load_with_protect.       *)

Pow2(n) == 2 ^ n
Pow256(n) == 256 ^ n

Mapped(a, n) == \A i \in 0 .. (n - 1) : (a + i) \in DOMAIN mem

RECURSIVE LittleEndian(_, _)
LittleEndian(a, n) ==
    IF n = 0 THEN 0
    ELSE LET hi == mem[a + n - 1]
         IN  (IF hi = 0 THEN 0 ELSE hi * Pow256(n - 1)) + LittleEndian(a, n - 1)

(* The n-byte two's-complement value at a. *)
RECURSIVE OnesComplement(_, _)
OnesComplement(a, n) ==
    IF n = 0 THEN 0
    ELSE LET hi == 255 - mem[a + n - 1]
         IN  (IF hi = 0 THEN 0 ELSE hi * Pow256(n - 1)) + OnesComplement(a, n - 1)

LittleEndianSigned(a, n) ==
    IF mem[a + n - 1] >= 128 THEN 0 - (OnesComplement(a, n) + 1)
    ELSE LittleEndian(a, n)

AddressRangeContains(m, target) == m.start <= target /\ target < m.end

address_is_readable(target) == \E m \in maps : AddressRangeContains(m, target)

(* utils::load<T>: an unchecked dereference of n bytes. *)
load(address, n) ==
    IF Mapped(address, n) THEN Ok(LittleEndian(address, n)) ELSE Fault(address)

(* utils::load<iN> *)
loadSigned(address, n) ==
    IF Mapped(address, n) THEN Ok(LittleEndianSigned(address, n)) ELSE Fault(address)

(* dwarf::load_with_protect<T>: probes the first byte only, then loads. *)
load_with_protect(address, n) ==
    IF address_is_readable(address) THEN load(address, n)
    ELSE Err(<<"UnreadableAddress", address>>)

load_with_protectSigned(address, n) ==
    IF address_is_readable(address) THEN loadSigned(address, n)
    ELSE Err(<<"UnreadableAddress", address>>)

-----------------------------------------------------------------------------
(* dwarf::consts: the DW_EH_PE_* pointer encodings (DWARF / LSB values).    *)

DW_EH_PE_PTR == 0
DW_EH_PE_ULEB128 == 1
DW_EH_PE_UDATA2 == 2
DW_EH_PE_UDATA4 == 3
DW_EH_PE_UDATA8 == 4
DW_EH_PE_SLEB128 == 9
DW_EH_PE_SDATA2 == 10
DW_EH_PE_SDATA4 == 11
DW_EH_PE_SDATA8 == 12
DW_EH_PE_ABSPTR == 0
DW_EH_PE_PCREL == 16
DW_EH_PE_DATAREL == 48
DW_EH_PE_INDIRECT == 128
DW_EH_PE_OMIT == 255

(* enc & 0b1110000, enc & 0b1111, enc & 0x80 on a u8 *)
EncOffsetBits(enc) == ((enc \div 16) % 8) * 16
EncValueBits(enc) == enc % 16
EncIndirect(enc) == (enc \div 128) % 2 = 1

-----------------------------------------------------------------------------
(* dwarf::encoding: decode_uleb128, decode_sleb128, decode_pointer.  Each   *)
(* returns Ok([val, loc]) with loc the advanced cursor; a failure carries   *)
(* in `loc` where the `&mut loc` cursor was left.                           *)

Shl(b, bit) == IF b = 0 THEN 0 ELSE b * Pow2(bit)

(* b << bit >> bit != b on a u64 (bit < 64): high bits of b are shifted out *)
ShiftLosesBits(b, bit) == b # 0 /\ \E k \in 0 .. 6 : b >= Pow2(k) /\ bit + k >= 64

(* r, with the cursor position loc if r is a failure *)
At(r, loc) == IF r.st = "Ok" THEN r ELSE [st |-> r.st, v |-> r.v, loc |-> loc]

RECURSIVE uleb128_loop(_, _, _, _)
uleb128_loop(loc, end, res, bit) ==
    IF loc = end THEN At(Err(<<"TruncatedUleb128Expression", loc>>), loc)
    ELSE Bind(At(load_with_protect(loc, 1), loc), LAMBDA byte :
         IF bit >= 64 \/ ShiftLosesBits(byte % 128, bit)
         THEN At(Err(<<"MalformedUleb128Expression", loc>>), loc)
         ELSE IF byte < 128
              THEN Ok([val |-> res + Shl(byte % 128, bit), loc |-> loc + 1])
              ELSE uleb128_loop(loc + 1, end, res + Shl(byte % 128, bit), bit + 7))

decode_uleb128(loc, end) == uleb128_loop(loc, end, 0, 0)

RECURSIVE sleb128_loop(_, _, _, _)
sleb128_loop(loc, end, res, bit) ==
    IF loc = end THEN At(Err(<<"TruncatedSleb128Expression", loc>>), loc)
    ELSE Bind(At(load_with_protect(loc, 1), loc), LAMBDA byte :
         IF byte < 128
         THEN \* sign extend negative numbers
              IF (byte \div 64) % 2 = 1 /\ bit + 7 < 64
              THEN Ok([val |-> res + Shl(byte % 128, bit) - Pow2(bit + 7), loc |-> loc + 1])
              ELSE Ok([val |-> res + Shl(byte % 128, bit), loc |-> loc + 1])
         ELSE sleb128_loop(loc + 1, end, res + Shl(byte % 128, bit), bit + 7))

decode_sleb128(loc, end) == sleb128_loop(loc, end, 0, 0)

(* `if v > 0 { v as u64 + offset } else { offset - ((-v) as u64) }` *)
SignedPlusOffset(v, offset) == IF v > 0 THEN v + offset ELSE offset - (0 - v)

(* The width of the fixed-size encodings of `match enc & 0b1111` *)
FixedSize(k) ==
    CASE k = DW_EH_PE_UDATA2 \/ k = DW_EH_PE_SDATA2 -> 2
      [] k = DW_EH_PE_UDATA4 \/ k = DW_EH_PE_SDATA4 -> 4
      [] OTHER -> 8

(* "Get value": the `match enc & 0b1111` of decode_pointer, k the masked enc *)
decode_pointer_value(loc, end, k, offset) ==
    CASE k \in {DW_EH_PE_PTR, DW_EH_PE_UDATA2, DW_EH_PE_UDATA4, DW_EH_PE_UDATA8} ->
            Bind(At(load_with_protect(loc, FixedSize(k)), loc), LAMBDA v :
                 Ok([val |-> v + offset, loc |-> loc + FixedSize(k)]))
      [] k \in {DW_EH_PE_SDATA2, DW_EH_PE_SDATA4, DW_EH_PE_SDATA8} ->
            Bind(At(load_with_protectSigned(loc, FixedSize(k)), loc), LAMBDA v :
                 Ok([val |-> SignedPlusOffset(v, offset), loc |-> loc + FixedSize(k)]))
      [] k = DW_EH_PE_ULEB128 ->
            Bind(decode_uleb128(loc, end), LAMBDA d :
                 Ok([val |-> d.val + offset, loc |-> d.loc]))
      [] k = DW_EH_PE_SLEB128 ->
            Bind(decode_sleb128(loc, end), LAMBDA d :
                 Ok([val |-> SignedPlusOffset(d.val, offset), loc |-> d.loc]))
      [] OTHER -> At(Err(<<"InvalidPointerEncodingValue", k>>), loc)

(* "Calculate relative offset": the `match enc & 0b1110000`, ob the masked enc *)
pointer_offset(loc, ob, datarel_base) ==
    CASE ob = DW_EH_PE_ABSPTR -> Ok(0)
      [] ob = DW_EH_PE_PCREL -> Ok(loc)
      [] ob = DW_EH_PE_DATAREL ->
            IF datarel_base = 0 THEN At(Err(<<"InvalidDataRelBase", 0>>), loc)
            ELSE Ok(datarel_base)
      [] OTHER -> At(Err(<<"InvalidPointerEncodingOffset", ob>>), loc)

decode_pointer(loc, end, enc, datarel_base) ==
    Bind(pointer_offset(loc, EncOffsetBits(enc), datarel_base), LAMBDA offset :
    Bind(decode_pointer_value(loc, end, EncValueBits(enc), offset), LAMBDA res :
    IF EncIndirect(enc)
    THEN \* Dereference the pointer if necessary.
         Bind(At(load_with_protect(res.val, 8), res.loc), LAMBDA d :
              Ok([val |-> d, loc |-> res.loc]))
    ELSE Ok(res)))

-----------------------------------------------------------------------------
(* dwarf::cfi: CommonInformationEntry, FrameDescriptionEntry, Entries, scan *)

U64_MAX == (Pow2(30) - 1) + Pow2(30)    \* stands for u64::MAX: above every address

(* Where a decoder that took `&mut loc` has left the cursor *)
LocAfter(r) == IF r.st = "Ok" THEN r.v.loc ELSE r.loc

IsEscapeLength(loc) == Mapped(loc, 4) /\ \A i \in 0 .. 3 : mem[loc + i] = 255

(* "Parse length": a u32, or the u64 that follows a u32 of 0xffffffff. *)
decode_length(loc) ==
    IF address_is_readable(loc) /\ IsEscapeLength(loc)
    THEN Bind(load_with_protect(loc + 4, 8),
              LAMBDA v : Ok([length |-> v, loc |-> loc + 12]))
    ELSE Bind(load_with_protect(loc, 4),
              LAMBDA v : Ok([length |-> v, loc |-> loc + 4]))

CommonInformationEntryDefault ==
    [ cie_start |-> 0, cie_length |-> 0, cie_instructions |-> 0,
      pointer_encoding |-> 0, lsda_encoding |-> 0, personality_encoding |-> 0,
      personality |-> 0, code_align_factor |-> 0, data_align_factor |-> 0,
      is_signal_frame |-> FALSE, fdes_have_augmentation_data |-> FALSE,
      return_address_register |-> 0 ]

(* `while load::<u8>(loc)? != 0 { loc += 1 }`: Ok(address of the NUL) *)
RECURSIVE augmentation_str_end(_)
augmentation_str_end(loc) ==
    Bind(load_with_protect(loc, 1), LAMBDA ch :
         IF ch # 0 THEN augmentation_str_end(loc + 1) ELSE Ok(loc))

(* "Parse return address register": Ok([val, loc]) *)
decode_return_address_register(version, loc, cie_content_end) ==
    IF version = 1
    THEN Bind(load_with_protect(loc, 1), LAMBDA r : Ok([val |-> r, loc |-> loc + 1]))
    ELSE Bind(decode_uleb128(loc, cie_content_end), LAMBDA r :
              IF r.val < 255 THEN Ok(r) ELSE Abort("assert!(r < 255)"))

(* "Parse augmentation data based on augmentation string": the while loop.  *)
RECURSIVE augmentation_data(_, _, _, _)
augmentation_data(n, loc, cie_content_end, cie) ==
    Bind(load_with_protect(n, 1), LAMBDA c :
    IF c = 0 THEN Ok([cie |-> cie, loc |-> loc])
    ELSE CASE c = 122 ->        \* b'z'
                augmentation_data(n + 1, loc, cie_content_end,
                    [cie EXCEPT !.fdes_have_augmentation_data = TRUE])
           [] c = 80 ->         \* b'P'
                Bind(load_with_protect(loc, 1), LAMBDA enc :
                Bind(decode_pointer(loc + 1, cie_content_end, enc, 0), LAMBDA p :
                augmentation_data(n + 1, p.loc, cie_content_end,
                    [cie EXCEPT !.personality_encoding = enc, !.personality = p.val])))
           [] c = 76 ->         \* b'L'
                Bind(load_with_protect(loc, 1), LAMBDA enc :
                augmentation_data(n + 1, loc + 1, cie_content_end,
                    [cie EXCEPT !.lsda_encoding = enc]))
           [] c = 82 ->         \* b'R'
                Bind(load_with_protect(loc, 1), LAMBDA enc :
                augmentation_data(n + 1, loc + 1, cie_content_end,
                    [cie EXCEPT !.pointer_encoding = enc]))
           [] c = 83 ->         \* b'S'
                augmentation_data(n + 1, loc, cie_content_end,
                    [cie EXCEPT !.is_signal_frame = TRUE])
           [] OTHER -> augmentation_data(n + 1, loc, cie_content_end, cie))

(* `let mut cie = CommonInformationEntry::default(); cie.cie_start = loc;   *)
(* cie.lsda_encoding = DW_EH_PE_OMIT;`                                      *)
CommonInformationEntryNew(start) ==
    [CommonInformationEntryDefault EXCEPT !.cie_start = start,
                                          !.lsda_encoding = DW_EH_PE_OMIT]

(* The part of CommonInformationEntry::decode after the CIE id and version: *)
(* s is the start of the augmentation string.                               *)
decode_cie_content(start, version, s, cie_content_end) ==
    Bind(augmentation_str_end(s), LAMBDA nul :
    \* Parse code alignment factor.
    Bind(decode_uleb128(nul + 1, cie_content_end), LAMBDA caf :
    \* Parse data alignment factor.
    Bind(decode_sleb128(caf.loc, cie_content_end), LAMBDA daf :
    Bind(decode_return_address_register(version, daf.loc, cie_content_end), LAMBDA rar :
    Bind(load_with_protect(s, 1), LAMBDA first :
    Bind(IF first = 122
         THEN \* `let _ = decode_uleb128(&mut loc, cie_content_end);`
              augmentation_data(s, LocAfter(decode_uleb128(rar.loc, cie_content_end)),
                                cie_content_end, CommonInformationEntryNew(start))
         ELSE Ok([cie |-> CommonInformationEntryNew(start), loc |-> rar.loc]),
         LAMBDA aug :
    Ok([aug.cie EXCEPT !.code_align_factor = caf.val,
                       !.data_align_factor = daf.val,
                       !.return_address_register = rar.val,
                       !.cie_length = cie_content_end - start,
                       !.cie_instructions = aug.loc ])))))))

(* CommonInformationEntry::decode *)
CommonInformationEntry_decode(start) ==
    Bind(decode_length(start), LAMBDA len :
    IF len.length = 0 THEN Err(<<"CIEZeroLength", start>>)
    ELSE \* CIE ID is always 0.
    Bind(load_with_protect(len.loc, 4), LAMBDA cie_id :
    IF cie_id # 0 THEN Err(<<"CIEIdIsNotZero", start>>)
    ELSE \* Version is always 1 or 3.
    Bind(load_with_protect(len.loc + 4, 1), LAMBDA version :
    IF version # 1 /\ version # 3 THEN Err(<<"CIEInvalidVersion", version>>)
    ELSE decode_cie_content(start, version, len.loc + 5, len.loc + len.length))))

FrameDescriptionEntryDefault ==
    [ fde_start |-> 0, fde_length |-> 0, fde_instructions |-> 0,
      pc_start |-> 0, pc_end |-> 0, lsda |-> 0 ]

(* "Check for augmentation length": Ok([lsda, loc]), loc the start of the   *)
(* FDE's instructions.                                                      *)
decode_fde_augmentation(loc, next_cfi, cie) ==
    IF ~cie.fdes_have_augmentation_data THEN Ok([lsda |-> 0, loc |-> loc])
    ELSE Bind(decode_uleb128(loc, next_cfi), LAMBDA augmentation_len :
         IF cie.lsda_encoding = DW_EH_PE_OMIT
         THEN Ok([lsda |-> 0, loc |-> augmentation_len.loc + augmentation_len.val])
         ELSE \* Peek at value (without indirection).  Zero means no LSDA.
         Bind(decode_pointer(augmentation_len.loc, next_cfi, cie.lsda_encoding % 16, 0),
              LAMBDA peek :
         IF peek.val = 0
         THEN Ok([lsda |-> 0, loc |-> augmentation_len.loc + augmentation_len.val])
         ELSE \* Reset pointer and re-parse LSDA address.
         Bind(decode_pointer(augmentation_len.loc, next_cfi, cie.lsda_encoding, 0),
              LAMBDA lsda :
         Ok([lsda |-> lsda.val, loc |-> augmentation_len.loc + augmentation_len.val]))))

(* The part of FrameDescriptionEntry::decode after the CIE is parsed: loc   *)
(* is past the CIE pointer.                                                 *)
decode_fde_content(start, loc, next_cfi, cie) ==
    \* Parse pc begin and range.
    Bind(decode_pointer(loc, next_cfi, cie.pointer_encoding, 0), LAMBDA pc_start :
    Bind(decode_pointer(pc_start.loc, next_cfi, cie.pointer_encoding % 16, 0),
         LAMBDA pc_range :
    Bind(decode_fde_augmentation(pc_range.loc, next_cfi, cie), LAMBDA aug :
    Ok([ fde |-> [ fde_start |-> start,
                   fde_length |-> next_cfi - start,
                   fde_instructions |-> aug.loc,
                   pc_start |-> pc_start.val,
                   pc_end |-> pc_start.val + pc_range.val,
                   lsda |-> aug.lsda ],
         cie |-> cie ]))))

(* FrameDescriptionEntry::decode: Ok([fde, cie]) *)
FrameDescriptionEntry_decode(start) ==
    Bind(decode_length(start), LAMBDA len :
    IF len.length = 0 THEN Err(<<"FDEZeroLength", start>>)
    ELSE \* Parse related CIE.
    Bind(load_with_protect(len.loc, 4), LAMBDA cie_ptr :
    IF cie_ptr = 0 THEN Err(<<"FDEIsReallyCIE", start>>)
    ELSE
    Bind(CommonInformationEntry_decode(len.loc - cie_ptr), LAMBDA cie :
    decode_fde_content(start, len.loc + 4, len.loc + len.length, cie))))

FrameDescriptionEntry_contains(fde, target) ==
    fde.pc_start <= target /\ target < fde.pc_end

(* Entries::new *)
Entries_new(eh_frame, eh_frame_len) ==
    [ eh_frame |-> eh_frame,
      eh_frame_end |-> IF eh_frame_len = U64_MAX THEN U64_MAX ELSE eh_frame + eh_frame_len ]

(* Entries::next: Ok([kind |-> "None"]) at the end, else                     *)
(* Ok([kind |-> "Cie" | "FdeCie", fde, cie, entries]) with entries advanced. *)
Entries_next(self) ==
    IF self.eh_frame >= self.eh_frame_end THEN Ok([kind |-> "None"])
    ELSE
    Bind(decode_length(self.eh_frame), LAMBDA len :
    IF len.length = 0 THEN Ok([kind |-> "None"])     \* Zero terminator.
    ELSE \* Parse CIE ID.
    Bind(load_with_protect(len.loc, 4), LAMBDA cie_id :
    IF cie_id = 0
    THEN Bind(CommonInformationEntry_decode(self.eh_frame), LAMBDA cie :
              Ok([kind |-> "Cie", fde |-> FrameDescriptionEntryDefault, cie |-> cie,
                  entries |-> [self EXCEPT !.eh_frame = @ + cie.cie_length]]))
    ELSE Bind(FrameDescriptionEntry_decode(self.eh_frame), LAMBDA fc :
              Ok([kind |-> "FdeCie", fde |-> fc.fde, cie |-> fc.cie,
                  entries |-> [self EXCEPT !.eh_frame = @ + fc.fde.fde_length]]))))

RECURSIVE scan_loop(_, _)
scan_loop(entries, target) ==
    Bind(Entries_next(entries), LAMBDA e :
    IF e.kind = "None" THEN Err(<<"FDENotFound", target>>)
    ELSE IF e.kind = "FdeCie" /\ FrameDescriptionEntry_contains(e.fde, target)
         THEN Ok([fde |-> e.fde, cie |-> e.cie])
         ELSE scan_loop(e.entries, target))

(* cfi::scan: full scan of an .eh_frame section to find the FDE for a pc. *)
scan(eh_frame, eh_frame_len, target) ==
    scan_loop(Entries_new(eh_frame, eh_frame_len), target)

-----------------------------------------------------------------------------
(* dwarf::header: EhFrameHeader (.eh_frame_hdr) decode and binary search.   *)

(* EhFrameHeader::decode.  The four fixed bytes are read through a raw      *)
(* reference to RawEhFrameHeader.                                           *)
EhFrameHeader_decode(start, end) ==
    Bind(load(start, 1), LAMBDA version :
    IF version # 1 THEN Err(<<"HeaderInvalidVersion", version>>)
    ELSE
    Bind(load(start + 1, 1), LAMBDA eh_frame_ptr_enc :
    Bind(decode_pointer(start + 4, end, eh_frame_ptr_enc, start), LAMBDA eh_frame :
    Bind(load(start + 2, 1), LAMBDA fde_count_enc :
    Bind(IF fde_count_enc # DW_EH_PE_OMIT
         THEN decode_pointer(eh_frame.loc, end, fde_count_enc, start)
         ELSE Ok([val |-> 0, loc |-> eh_frame.loc]), LAMBDA fde_count :
    Bind(load(start + 3, 1), LAMBDA table_enc :
    Ok([ start |-> start, end |-> end, eh_frame |-> eh_frame.val,
         fde_count |-> fde_count.val, table |-> fde_count.loc,
         table_enc |-> table_enc ])))))))

(* `match table_enc & 0b1111 { ... _ => unreachable!() }` *)
table_entry_size(k) ==
    CASE k = DW_EH_PE_UDATA2 \/ k = DW_EH_PE_SDATA2 -> Ok(4)
      [] k = DW_EH_PE_UDATA4 \/ k = DW_EH_PE_SDATA4 -> Ok(8)
      [] k = DW_EH_PE_UDATA8 \/ k = DW_EH_PE_SDATA8 -> Ok(16)
      [] OTHER -> Abort("unreachable!() in EhFrameHeader::search")

(* A search that keeps the first entry of the table whatever the target *)
search_loop_first(self, entry_size, target, low, len) == Ok(low)

(* The `while len > 1` loop of EhFrameHeader::search: Ok(low) *)
RECURSIVE search_loop(_, _, _, _, _)
search_loop(self, entry_size, target, low, len) ==
    IF ~(len > 1) THEN Ok(low)
    ELSE Bind(decode_pointer(self.table + (low + (len \div 2)) * entry_size, self.end,
                             self.table_enc, self.start), LAMBDA entry_target :
         IF entry_target.val = target THEN Ok(low + (len \div 2))
         ELSE IF entry_target.val < target
              THEN search_loop(self, entry_size, target, low + (len \div 2),
                               len - (len \div 2))
              ELSE search_loop(self, entry_size, target, low, len \div 2))

(* EhFrameHeader::search: Ok([fde, cie]) *)
EhFrameHeader_search(self, target) ==
    Bind(table_entry_size(self.table_enc % 16), LAMBDA entry_size :
    Bind(search_loop(self, entry_size, target, 0, self.fde_count), LAMBDA low :
    \* `let _ = decode_pointer(&mut entry_loc, end, table_enc, start);`
    Bind(decode_pointer(LocAfter(decode_pointer(self.table + low * entry_size, self.end,
                                                self.table_enc, self.start)),
                        self.end, self.table_enc, self.start), LAMBDA fde :
    Bind(FrameDescriptionEntry_decode(fde.val), LAMBDA fc :
    IF target < fc.fde.pc_start \/ target >= fc.fde.pc_end
    THEN Err(<<"FDENotFound", target>>)
    ELSE Ok(fc)))))

-----
(* registers: the register bank, indexed by DWARF register number.          *)

UNW_REG_IP == 0 - 1     \* pseudo-register: instruction pointer
UNW_REG_SP == 0 - 2     \* pseudo-register: stack pointer

UNW_X86_64_RBP == 6
UNW_X86_64_RSP == 7
UNW_X86_64_RIP == 16
UNW_X86_64_MAX_REG_NUM == 16

UNW_ARM64_FP == 29
UNW_ARM64_LR == 30
UNW_ARM64_SP == 31
UNW_ARM64_PC == 32
UNW_ARM64_RA_SIGN_STATE == 34

(* The fields of `struct Registers`, named by their DWARF number. *)
RegisterSlots(p) ==
    IF p = "linux_x64" THEN 0 .. UNW_X86_64_MAX_REG_NUM
    ELSE (0 .. UNW_ARM64_PC) \cup {UNW_ARM64_RA_SIGN_STATE}

(* The `match index` of Index / IndexMut: the field an index names. *)
RegisterSlot(p, index) ==
    IF index = UNW_REG_IP
    THEN Ok(IF p = "linux_x64" THEN UNW_X86_64_RIP ELSE UNW_ARM64_PC)
    ELSE IF index = UNW_REG_SP
    THEN Ok(IF p = "linux_x64" THEN UNW_X86_64_RSP ELSE UNW_ARM64_SP)
    ELSE IF index \in RegisterSlots(p) THEN Ok(index)
    ELSE Abort("unreachable!() in Registers::index")

(* registers[index] *)
Registers_index(regs, index) ==
    Bind(RegisterSlot(platform, index), LAMBDA slot : Ok(regs[slot]))

Registers_pc(regs) == Registers_index(regs, UNW_REG_IP).v
Registers_sp(regs) == Registers_index(regs, UNW_REG_SP).v

max_register_num == UNW_X86_64_MAX_REG_NUM

valid_register(n) ==
    IF n = UNW_REG_IP \/ n = UNW_REG_SP THEN TRUE
    ELSE IF n > UNW_X86_64_MAX_REG_NUM THEN FALSE
    ELSE TRUE

valid_float_register(n) == FALSE
valid_vector_register(n) == FALSE

-----------------------------------------------------------------------------
(* dwarf::expression: the DWARF expression evaluator.  A u64 on the         *)
(* evaluation stack is held as its two's-complement representative, so      *)
(* `s1 as u64` and `u1 as i64` are the identity; arithmetic wraps as in a   *)
(* release build.                                                           *)

DW_OP_ADDR == 3
DW_OP_DEREF == 6
DW_OP_CONST1U == 8
DW_OP_CONST1S == 9
DW_OP_CONST2U == 10
DW_OP_CONST2S == 11
DW_OP_CONST4U == 12
DW_OP_CONST4S == 13
DW_OP_CONST8U == 14
DW_OP_CONST8S == 15
DW_OP_CONSTU == 16
DW_OP_CONSTS == 17
DW_OP_DUP == 18
DW_OP_DROP == 19
DW_OP_OVER == 20
DW_OP_PICK == 21
DW_OP_SWAP == 22
DW_OP_ROT == 23
DW_OP_XDEREF == 24
DW_OP_ABS == 25
DW_OP_AND == 26
DW_OP_DIV == 27
DW_OP_MINUS == 28
DW_OP_MOD == 29
DW_OP_MUL == 30
DW_OP_NEG == 31
DW_OP_NOT == 32
DW_OP_OR == 33
DW_OP_PLUS == 34
DW_OP_PLUS_UCONST == 35
DW_OP_SHL == 36
DW_OP_SHR == 37
DW_OP_SHRA == 38
DW_OP_XOR == 39
DW_OP_SKIP == 47
DW_OP_BRA == 40
DW_OP_EQ == 41
DW_OP_GE == 42
DW_OP_GT == 43
DW_OP_LE == 44
DW_OP_LT == 45
DW_OP_NE == 46
DW_OP_LIT0 == 48
DW_OP_LIT31 == 79
DW_OP_REG0 == 80
DW_OP_REG31 == 111
DW_OP_BREG0 == 112
DW_OP_BREG31 == 143
DW_OP_REGX == 144
DW_OP_BREGX == 146
DW_OP_DEREF_SIZE == 148

Hang(why) == [st |-> "Hang", v |-> why]

EvaluateStackSize == 100
EvaluateFuel == 256    \* loop iterations followed before the loop is declared endless

Abs(a) == IF a < 0 THEN 0 - a ELSE a
BitNot(a) == (0 - a) - 1

RECURSIVE BitAnd(_, _)
BitAnd(a, b) ==
    IF a = 0 \/ b = 0 THEN 0
    ELSE IF a = 0 - 1 THEN b
    ELSE IF b = 0 - 1 THEN a
    ELSE (IF a % 2 = 1 /\ b % 2 = 1 THEN 1 ELSE 0) + 2 * BitAnd(a \div 2, b \div 2)

BitOr(a, b) == BitNot(BitAnd(BitNot(a), BitNot(b)))
BitXor(a, b) == BitOr(a, b) - BitAnd(a, b)

(* Rust `/` and `%` on i64 truncate toward zero. *)
TruncDiv(a, b) ==
    IF (a < 0) = (b < 0) THEN Abs(a) \div Abs(b) ELSE 0 - (Abs(a) \div Abs(b))
TruncRem(a, b) == a - b * TruncDiv(a, b)

(* u64 comparison of two representatives *)
ULt(a, b) == IF (a < 0) = (b < 0) THEN a < b ELSE b < 0

(* u64 `>>` and i64 `>>` *)
ShrLogical(a, k) == IF a >= 0 THEN a \div Pow2(k)
                    ELSE IF k = 0 THEN a ELSE Pow2(64 - k) + (a \div Pow2(k))
ShrArith(a, k) == a \div Pow2(k)

(* EvaluateStack::push / pop / top / top_mut: the top is the last element *)
EvaluateStack_push(stack, v) ==
    IF Len(stack) >= EvaluateStackSize
    THEN Abort("index out of bounds in EvaluateStack::push")
    ELSE Ok(Append(stack, v))

EvaluateStack_pop(stack) ==
    IF Len(stack) = 0 THEN Abort("index out of bounds in EvaluateStack::pop")
    ELSE Ok([val |-> stack[Len(stack)], stack |-> SubSeq(stack, 1, Len(stack) - 1)])

EvaluateStack_top(stack, n) ==
    IF Len(stack) < n + 1 THEN Abort("index out of bounds in EvaluateStack::top")
    ELSE Ok(stack[Len(stack) - n])

EvaluateStack_set_top(stack, n, v) ==
    IF Len(stack) < n + 1 THEN Abort("index out of bounds in EvaluateStack::top_mut")
    ELSE Ok([stack EXCEPT ![Len(stack) - n] = v])

(* stack.push(v) and continue at newloc *)
PushAt(stack, v, newloc) ==
    Bind(EvaluateStack_push(stack, v), LAMBDA s : Ok([loc |-> newloc, stack |-> s]))

(* r is the result of a raw load / of a LEB decoder *)
PushLoaded(r, stack, newloc) == Bind(r, LAMBDA v : PushAt(stack, v, newloc))
PushDecoded(r, stack) == Bind(r, LAMBDA d : PushAt(stack, d.val, d.loc))

(* `*stack.top_mut(n) = v` and continue at newloc *)
SetTopAt(stack, n, v, newloc) ==
    Bind(EvaluateStack_set_top(stack, n, v), LAMBDA s : Ok([loc |-> newloc, stack |-> s]))

(* `u1 = stack.pop(); *stack.top_mut(0) = F(stack.top(0), u1)` *)
BinaryOp(stack, loc, F(_, _)) ==
    Bind(EvaluateStack_pop(stack), LAMBDA p :
    Bind(EvaluateStack_top(p.stack, 0), LAMBDA t :
    SetTopAt(p.stack, 0, F(t, p.val), loc)))

(* The same with a divisor: `s2 / s1` panics when s1 = 0 *)
DivisionOp(stack, loc, F(_, _)) ==
    Bind(EvaluateStack_pop(stack), LAMBDA p :
    Bind(EvaluateStack_top(p.stack, 0), LAMBDA t :
    IF p.val = 0 THEN Abort("attempt to divide by zero")
    ELSE SetTopAt(p.stack, 0, F(t, p.val), loc)))

(* `*stack.top_mut(0) = F(stack.top(0))` *)
UnaryOp(stack, loc, F(_)) ==
    Bind(EvaluateStack_top(stack, 0), LAMBDA t : SetTopAt(stack, 0, F(t), loc))

Bool01(b) == IF b THEN 1 ELSE 0

(* The operand width of DW_OP_const{1,2,4,8}{u,s} and DW_OP_addr *)
ConstSize(opcode) ==
    CASE opcode = DW_OP_CONST1U \/ opcode = DW_OP_CONST1S -> 1
      [] opcode = DW_OP_CONST2U \/ opcode = DW_OP_CONST2S -> 2
      [] opcode = DW_OP_CONST4U \/ opcode = DW_OP_CONST4S -> 4
      [] OTHER -> 8

(* One iteration of the `while loc < end` loop of evaluate, opcode being    *)
(* the byte at loc: the operands are read from loc as well.                 *)
evaluate_opcode(opcode, loc, end, stack, regs) ==
    CASE opcode \in {DW_OP_ADDR, DW_OP_CONST1U, DW_OP_CONST2U, DW_OP_CONST4U,
                     DW_OP_CONST8U} ->
                PushLoaded(load(loc, ConstSize(opcode)), stack, loc + ConstSize(opcode))
      [] opcode \in {DW_OP_CONST1S, DW_OP_CONST2S, DW_OP_CONST4S, DW_OP_CONST8S} ->
                PushLoaded(loadSigned(loc, ConstSize(opcode)), stack,
                           loc + ConstSize(opcode))
      [] opcode = DW_OP_DEREF ->
                Bind(EvaluateStack_pop(stack), LAMBDA p :
                PushLoaded(load(p.val, 8), p.stack, loc))
      [] opcode = DW_OP_CONSTU -> PushDecoded(decode_uleb128(loc, end), stack)
      [] opcode = DW_OP_CONSTS -> PushDecoded(decode_sleb128(loc, end), stack)
      [] opcode = DW_OP_DUP ->
                Bind(EvaluateStack_pop(stack), LAMBDA p : PushAt(p.stack, p.val, loc))
      [] opcode = DW_OP_DROP ->
                Bind(EvaluateStack_pop(stack), LAMBDA p :
                Ok([loc |-> loc, stack |-> p.stack]))
      [] opcode = DW_OP_OVER ->
                PushLoaded(EvaluateStack_top(stack, 1), stack, loc)
      [] opcode = DW_OP_PICK ->
                Bind(load(loc, 1), LAMBDA reg :
                PushLoaded(EvaluateStack_top(stack, reg), stack, loc + 1))
      [] opcode = DW_OP_SWAP ->
                Bind(EvaluateStack_top(stack, 0), LAMBDA t0 :
                Bind(EvaluateStack_top(stack, 1), LAMBDA t1 :
                Ok([loc |-> loc,
                    stack |-> [stack EXCEPT ![Len(stack)] = t1,
                                            ![Len(stack) - 1] = t0]])))
      [] opcode = DW_OP_ROT ->
                Bind(EvaluateStack_top(stack, 0), LAMBDA t0 :
                Bind(EvaluateStack_top(stack, 1), LAMBDA t1 :
                Bind(EvaluateStack_top(stack, 2), LAMBDA t2 :
                Ok([loc |-> loc,
                    stack |-> [stack EXCEPT ![Len(stack)] = t1,
                                            ![Len(stack) - 1] = t2,
                                            ![Len(stack) - 2] = t0]]))))
      [] opcode = DW_OP_XDEREF ->
                Bind(EvaluateStack_pop(stack), LAMBDA p :
                Bind(load(p.val, 8), LAMBDA d :
                SetTopAt(p.stack, 0, d, loc)))
      [] opcode = DW_OP_ABS -> UnaryOp(stack, loc, Abs)
      [] opcode = DW_OP_AND -> BinaryOp(stack, loc, BitAnd)
      [] opcode = DW_OP_DIV -> DivisionOp(stack, loc, TruncDiv)
      [] opcode = DW_OP_MINUS -> BinaryOp(stack, loc, LAMBDA a, b : a - b)
      [] opcode = DW_OP_MOD -> DivisionOp(stack, loc, TruncRem)
      [] opcode = DW_OP_MUL -> BinaryOp(stack, loc, LAMBDA a, b : a * b)
      [] opcode = DW_OP_NEG -> UnaryOp(stack, loc, LAMBDA a : 0 - a)
      [] opcode = DW_OP_NOT -> UnaryOp(stack, loc, BitNot)
      [] opcode = DW_OP_OR -> BinaryOp(stack, loc, BitOr)
      [] opcode = DW_OP_PLUS -> BinaryOp(stack, loc, LAMBDA a, b : a + b)
      [] opcode = DW_OP_PLUS_UCONST ->
                Bind(decode_uleb128(loc, end), LAMBDA d :
                Bind(EvaluateStack_top(stack, 0), LAMBDA t :
                SetTopAt(stack, 0, t + d.val, d.loc)))
      [] opcode = DW_OP_SHL -> BinaryOp(stack, loc, LAMBDA a, b : a * Pow2(b % 64))
      [] opcode = DW_OP_SHR -> BinaryOp(stack, loc, LAMBDA a, b : ShrLogical(a, b % 64))
      [] opcode = DW_OP_SHRA -> BinaryOp(stack, loc, LAMBDA a, b : ShrArith(a, b % 64))
      [] opcode = DW_OP_XOR -> BinaryOp(stack, loc, BitXor)
      [] opcode = DW_OP_SKIP ->
                Bind(loadSigned(loc, 2), LAMBDA rel :
                Ok([loc |-> loc + 2 + rel, stack |-> stack]))
      [] opcode = DW_OP_BRA ->
                Bind(loadSigned(loc, 2), LAMBDA rel :
                Bind(EvaluateStack_pop(stack), LAMBDA p :
                Ok([loc |-> IF p.val # 0 THEN loc + 2 + rel ELSE loc + 2,
                    stack |-> p.stack])))
      [] opcode = DW_OP_EQ -> BinaryOp(stack, loc, LAMBDA a, b : Bool01(a = b))
      [] opcode = DW_OP_GE -> BinaryOp(stack, loc, LAMBDA a, b : Bool01(~ULt(a, b)))
      [] opcode = DW_OP_GT -> BinaryOp(stack, loc, LAMBDA a, b : Bool01(ULt(b, a)))
      [] opcode = DW_OP_LE -> BinaryOp(stack, loc, LAMBDA a, b : Bool01(~ULt(b, a)))
      [] opcode = DW_OP_LT -> BinaryOp(stack, loc, LAMBDA a, b : Bool01(ULt(a, b)))
      [] opcode = DW_OP_NE -> BinaryOp(stack, loc, LAMBDA a, b : Bool01(a # b))
      [] opcode >= DW_OP_LIT0 /\ opcode <= DW_OP_LIT31 ->
                PushAt(stack, opcode - DW_OP_LIT0, loc)
      [] opcode >= DW_OP_REG0 /\ opcode <= DW_OP_REG31 ->
                PushLoaded(Registers_index(regs, opcode - DW_OP_REG0), stack, loc)
      [] opcode = DW_OP_REGX ->
                Bind(decode_uleb128(loc, end), LAMBDA d :
                PushLoaded(Registers_index(regs, d.val), stack, d.loc))
      [] opcode >= DW_OP_BREG0 /\ opcode <= DW_OP_BREG31 ->
                Bind(decode_sleb128(loc, end), LAMBDA off :
                Bind(Registers_index(regs, opcode - DW_OP_BREG0), LAMBDA r :
                PushAt(stack, off.val + r, off.loc)))
      [] opcode = DW_OP_BREGX ->
                Bind(decode_uleb128(loc, end), LAMBDA d :
                Bind(decode_sleb128(d.loc, end), LAMBDA off :
                Bind(Registers_index(regs, d.val), LAMBDA r :
                PushAt(stack, off.val + r, off.loc))))
      [] opcode = DW_OP_DEREF_SIZE ->
                Bind(EvaluateStack_pop(stack), LAMBDA p :
                Bind(load(loc, 1), LAMBDA size :
                IF size \in {1, 2, 4, 8}
                THEN PushLoaded(load(p.val, size), p.stack, loc + 1)
                ELSE Abort("unreachable!() in evaluate")))
      [] OTHER -> Abort("unimplemented!() in evaluate")

evaluate_op(loc, end, stack, regs) ==
    Bind(load(loc, 1), LAMBDA opcode : evaluate_opcode(opcode, loc, end, stack, regs))

RECURSIVE evaluate_loop(_, _, _, _, _)
evaluate_loop(loc, end, stack, regs, fuel) ==
    IF ~(loc < end) THEN EvaluateStack_top(stack, 0)
    ELSE IF fuel = 0 THEN Hang("evaluate")
    ELSE Bind(evaluate_op(loc, end, stack, regs), LAMBDA n :
         IF n.loc = loc /\ n.stack = stack THEN Hang("evaluate")
         ELSE evaluate_loop(n.loc, end, n.stack, regs, fuel - 1))

(* expression::evaluate *)
evaluate(expression, regs, initial_stack) ==
    Bind(decode_uleb128(expression, expression + 20),    \* 20 is a tmp guard.
         LAMBDA length :
            evaluate_loop(length.loc, expression + length.val,
                          <<initial_stack>>, regs, EvaluateFuel))

-----------------------------------------------------------------------------
(* dwarf::instruction: the CFI interpreter (x86_64 build) and PrologInfo.   *)

DW_CFA_NOP == 0
DW_CFA_SET_LOC == 1
DW_CFA_ADVANCE_LOC1 == 2
DW_CFA_ADVANCE_LOC2 == 3
DW_CFA_ADVANCE_LOC4 == 4
DW_CFA_OFFSET_EXTENDED == 5
DW_CFA_RESTORE_EXTENDED == 6
DW_CFA_UNDEFINED == 7
DW_CFA_SAME_VALUE == 8
DW_CFA_REGISTER == 9
DW_CFA_REMEMBER_STATE == 10
DW_CFA_RESTORE_STATE == 11
DW_CFA_DEF_CFA == 12
DW_CFA_DEF_CFA_REGISTER == 13
DW_CFA_DEF_CFA_OFFSET == 14
DW_CFA_DEF_CFA_EXPRESSION == 15
DW_CFA_EXPRESSION == 16
DW_CFA_OFFSET_EXTENDED_SF == 17
DW_CFA_DEF_CFA_SF == 18
DW_CFA_DEF_CFA_OFFSET_SF == 19
DW_CFA_VAL_OFFSET == 20
DW_CFA_VAL_OFFSET_SF == 21
DW_CFA_VAL_EXPRESSION == 22
DW_CFA_ADVANCE_LOC == 64
DW_CFA_OFFSET == 128
DW_CFA_RESTORE == 192
DW_CFA_GNU_ARGS_SIZE == 46
DW_CFA_GNU_NEGATIVE_OFFSET_EXTENDED == 47

MAX_REGISTER_NUM == 287

RegisterLocationDefault ==
    [location |-> "Unused", initial_state_saved |-> FALSE, value |-> 0]

(* PrologInfo::default; saved_registers is an array of MAX_REGISTER_NUM slots *)
PrologInfoDefault ==
    [ cfa_register |-> 0, cfa_register_offset |-> 0, cfa_expression |-> 0,
      sp_extra_arg_size |-> 0,
      saved_registers |-> [r \in 0 .. (MAX_REGISTER_NUM - 1) |-> RegisterLocationDefault] ]

(* The interpreter works on a pair st = [result, initial_state].            *)
(* PrologInfo::check_save_register *)
check_save_register(st, r) ==
    IF r >= MAX_REGISTER_NUM THEN Abort("index out of bounds: saved_registers")
    ELSE IF ~st.result.saved_registers[r].initial_state_saved
    THEN Ok([st EXCEPT !.initial_state.saved_registers[r] = st.result.saved_registers[r],
                       !.result.saved_registers[r].initial_state_saved = TRUE])
    ELSE Ok(st)

(* PrologInfo::set_register *)
set_register(st, r, new_loc, new_v) ==
    Bind(check_save_register(st, r), LAMBDA c :
         Ok([c EXCEPT !.result.saved_registers[r].location = new_loc,
                      !.result.saved_registers[r].value = new_v]))

(* PrologInfo::set_register_location *)
set_register_location(st, r, new_loc) ==
    Bind(check_save_register(st, r), LAMBDA c :
         Ok([c EXCEPT !.result.saved_registers[r].location = new_loc]))

(* PrologInfo::set_register_value *)
set_register_value(st, r, new_v) ==
    Bind(check_save_register(st, r), LAMBDA c :
         Ok([c EXCEPT !.result.saved_registers[r].value = new_v]))

(* PrologInfo::restore_register_to_initial_state *)
restore_register_to_initial_state(st, r) ==
    IF r >= MAX_REGISTER_NUM THEN Abort("index out of bounds: saved_registers")
    ELSE IF st.result.saved_registers[r].initial_state_saved
    THEN Ok([st EXCEPT !.result.saved_registers[r] = st.initial_state.saved_registers[r]])
    ELSE Ok(st)     \* Else the register still holds its initial state.

(* PrologInfo::cfa *)
PrologInfo_cfa(self, regs) ==
    IF self.cfa_register # 0
    THEN Bind(Registers_index(regs, self.cfa_register),
              LAMBDA r : Ok(r + self.cfa_register_offset))
    ELSE IF self.cfa_expression # 0
    THEN evaluate(self.cfa_expression, regs, 0)
    ELSE Abort("unreachable!() in PrologInfo::cfa")

(* instruction::get_saved_register *)
get_saved_register(regs, loc, cfa) ==
    CASE loc.location = "InCFA" -> load(cfa + loc.value, 8)
      [] loc.location \in {"AtExpression", "IsExpression"} ->
            Bind(evaluate(loc.value, regs, cfa), LAMBDA e :
                 IF loc.location = "AtExpression" THEN load(e, 8) ELSE Ok(e))
      [] loc.location = "InRegister" -> load(loc.value, 8)
      [] loc.location = "Undefined" -> Ok(0)
      [] OTHER -> Abort("unreachable!() in get_saved_register")

(* instruction::get_saved_float_register / get_saved_vector_register (n bytes) *)
get_saved_wide_register(regs, loc, cfa, n) ==
    CASE loc.location = "InCFA" -> load(cfa + loc.value, n)
      [] loc.location = "AtExpression" ->
            Bind(evaluate(loc.value, regs, cfa), LAMBDA e : load(e, n))
      [] OTHER -> Abort("unreachable!() in get_saved_float_register")

(* `let r = decode_uleb128(..) as usize; if r > MAX_REGISTER_NUM { return Err }` *)
register_operand(loc, end) ==
    Bind(decode_uleb128(loc, end), LAMBDA r :
         IF r.val > MAX_REGISTER_NUM THEN Err(<<"InvalidRegisterNumber", r.val>>)
         ELSE Ok(r))

(* DW_CFA_REMEMBER_STATE stores the address of a RememberStack temporary    *)
(* that is dropped at the end of the statement.  Every execution of the     *)
(* statement uses the same stack slot, so the pointer names the latest      *)
(* temporary (whose `next` is then the slot itself); the slot's content may *)
(* survive until DW_CFA_RESTORE_STATE ("slot_intact") or be overwritten     *)
(* ("slot_clobbered").  remember_stack is <<>> (null) or <<slot>>.          *)
remember_state(remember_stack, result) ==
    << [info |-> result, next_is_slot |-> remember_stack # <<>>] >>

restored_info(remember_stack) ==
    IF build = "slot_intact" THEN remember_stack[1].info ELSE PrologInfoDefault

restored_next(remember_stack) ==
    IF build = "slot_intact" /\ remember_stack[1].next_is_slot THEN remember_stack ELSE <<>>

(* What one CFI instruction does: continue with Ok(c), c the loop state     *)
(* [loc, code_offset, st, remember_stack]; loc is already past the opcode.  *)
Continue(c, loc, st) == Bind(st, LAMBDA s : Ok([c EXCEPT !.loc = loc, !.st = s]))

(* DW_CFA_advance_loc1 / 2 / 4 *)
advance_loc(c, cie, n) ==
    Bind(load(c.loc, n), LAMBDA delta :
         Ok([c EXCEPT !.loc = @ + n,
                      !.code_offset = @ + delta * cie.code_align_factor]))

(* DW_CFA_offset_extended(_sf), DW_CFA_val_offset(_sf) and                  *)
(* DW_CFA_GNU_negative_offset_extended: a register, then a factored offset  *)
register_offset(opcode, c, cie, end) ==
    Bind(register_operand(c.loc, end), LAMBDA r :
    Bind(IF opcode \in {DW_CFA_OFFSET_EXTENDED_SF, DW_CFA_VAL_OFFSET_SF}
         THEN decode_sleb128(r.loc, end)
         ELSE decode_uleb128(r.loc, end), LAMBDA off :
    Continue(c, off.loc,
             set_register(c.st, r.val,
                          IF opcode \in {DW_CFA_VAL_OFFSET, DW_CFA_VAL_OFFSET_SF}
                          THEN "OffsetFromCFA" ELSE "InCFA",
                          IF opcode = DW_CFA_GNU_NEGATIVE_OFFSET_EXTENDED
                          THEN 0 - off.val * cie.data_align_factor
                          ELSE off.val * cie.data_align_factor))))

(* DW_CFA_restore_extended, DW_CFA_undefined, DW_CFA_same_value: a register *)
register_only(opcode, c, end) ==
    Bind(register_operand(c.loc, end), LAMBDA r :
    Continue(c, r.loc,
             CASE opcode = DW_CFA_RESTORE_EXTENDED ->
                        restore_register_to_initial_state(c.st, r.val)
               [] opcode = DW_CFA_UNDEFINED ->
                        set_register_location(c.st, r.val, "Undefined")
               [] OTHER -> set_register_location(c.st, r.val, "Unused")))

(* DW_CFA_expression, DW_CFA_val_expression: a register, then a block *)
register_expression(opcode, c, end) ==
    Bind(register_operand(c.loc, end), LAMBDA r :
    Bind(set_register(c.st, r.val,
                      IF opcode = DW_CFA_EXPRESSION THEN "AtExpression"
                      ELSE "IsExpression", r.loc), LAMBDA s :
    Bind(decode_uleb128(r.loc, end), LAMBDA len :
    Ok([c EXCEPT !.loc = len.loc + len.val, !.st = s]))))

(* DW_CFA_def_cfa, DW_CFA_def_cfa_sf: a register, then an offset *)
def_cfa(opcode, c, cie, end) ==
    Bind(register_operand(c.loc, end), LAMBDA r :
    Bind(IF opcode = DW_CFA_DEF_CFA_SF THEN decode_sleb128(r.loc, end)
         ELSE decode_uleb128(r.loc, end), LAMBDA off :
    Ok([c EXCEPT !.loc = off.loc,
                 !.st.result.cfa_register = r.val,
                 !.st.result.cfa_register_offset =
                      IF opcode = DW_CFA_DEF_CFA_SF THEN off.val * cie.data_align_factor
                      ELSE off.val])))

(* The `_ =>` arm: the opcodes that carry their operand in the low six bits *)
packed_instruction(opcode, c, cie, end) ==
    CASE (opcode \div 64) * 64 = DW_CFA_OFFSET ->
            Bind(decode_uleb128(c.loc, end), LAMBDA off :
            Continue(c, off.loc,
                     set_register(c.st, opcode % 64, "InCFA",
                                  off.val * cie.data_align_factor)))
      [] (opcode \div 64) * 64 = DW_CFA_ADVANCE_LOC ->
            Ok([c EXCEPT !.code_offset = @ + (opcode % 64) * cie.code_align_factor])
      [] (opcode \div 64) * 64 = DW_CFA_RESTORE ->
            Continue(c, c.loc, restore_register_to_initial_state(c.st, opcode % 64))
      [] OTHER -> Err(<<"InvalidOpcode", opcode>>)

(* The `match opcode` of run_ *)
cfi_instruction(opcode, c, cie, end) ==
    CASE opcode = DW_CFA_NOP -> Ok(c)
      [] opcode = DW_CFA_SET_LOC ->
            Bind(decode_pointer(c.loc, end, cie.pointer_encoding, 0), LAMBDA t :
            Ok([c EXCEPT !.loc = t.loc, !.code_offset = t.val]))
      [] opcode = DW_CFA_ADVANCE_LOC1 -> advance_loc(c, cie, 1)
      [] opcode = DW_CFA_ADVANCE_LOC2 -> advance_loc(c, cie, 2)
      [] opcode = DW_CFA_ADVANCE_LOC4 -> advance_loc(c, cie, 4)
      [] opcode \in {DW_CFA_OFFSET_EXTENDED, DW_CFA_OFFSET_EXTENDED_SF, DW_CFA_VAL_OFFSET,
                     DW_CFA_VAL_OFFSET_SF, DW_CFA_GNU_NEGATIVE_OFFSET_EXTENDED} ->
            register_offset(opcode, c, cie, end)
      [] opcode \in {DW_CFA_RESTORE_EXTENDED, DW_CFA_UNDEFINED, DW_CFA_SAME_VALUE} ->
            register_only(opcode, c, end)
      [] opcode = DW_CFA_REGISTER ->
            Bind(register_operand(c.loc, end), LAMBDA r1 :
            Bind(register_operand(r1.loc, end), LAMBDA r2 :
            Continue(c, r2.loc, set_register(c.st, r1.val, "InRegister", r2.val))))
      [] opcode = DW_CFA_REMEMBER_STATE ->
            Ok([c EXCEPT !.remember_stack = remember_state(@, c.st.result)])
      [] opcode = DW_CFA_RESTORE_STATE ->
            IF c.remember_stack = <<>> THEN Err(<<"NoRememberState">>)
            ELSE Ok([c EXCEPT !.st.result = restored_info(c.remember_stack),
                              !.remember_stack = restored_next(c.remember_stack)])
      [] opcode \in {DW_CFA_DEF_CFA, DW_CFA_DEF_CFA_SF} -> def_cfa(opcode, c, cie, end)
      [] opcode = DW_CFA_DEF_CFA_REGISTER ->
            Bind(register_operand(c.loc, end), LAMBDA r :
            Ok([c EXCEPT !.loc = r.loc, !.st.result.cfa_register = r.val]))
      [] opcode = DW_CFA_DEF_CFA_OFFSET ->
            Bind(decode_uleb128(c.loc, end), LAMBDA off :
            Ok([c EXCEPT !.loc = off.loc, !.st.result.cfa_register_offset = off.val]))
      [] opcode = DW_CFA_DEF_CFA_EXPRESSION ->
            Bind(decode_uleb128(c.loc, end), LAMBDA len :
            Ok([c EXCEPT !.loc = len.loc + len.val,
                         !.st.result.cfa_register = 0,
                         !.st.result.cfa_expression = c.loc]))
      [] opcode \in {DW_CFA_EXPRESSION, DW_CFA_VAL_EXPRESSION} ->
            register_expression(opcode, c, end)
      [] opcode = DW_CFA_DEF_CFA_OFFSET_SF ->
            Bind(decode_sleb128(c.loc, end), LAMBDA off :
            Ok([c EXCEPT !.loc = off.loc,
                         !.st.result.cfa_register_offset =
                              off.val * cie.data_align_factor]))
      [] opcode = DW_CFA_GNU_ARGS_SIZE ->
            Bind(decode_uleb128(c.loc, end), LAMBDA size :
            Ok([c EXCEPT !.loc = size.loc, !.st.result.sp_extra_arg_size = size.val]))
      [] OTHER -> packed_instruction(opcode, c, cie, end)

(* The `while loc < end && code_offset < pc_offset` loop of run_ *)
RECURSIVE run_loop(_, _, _, _)
run_loop(c, cie, end, pc_offset) ==
    IF ~(c.loc < end /\ c.code_offset < pc_offset) THEN Ok(c.st.result)
    ELSE Bind(load(c.loc, 1), LAMBDA opcode :
         Bind(cfi_instruction(opcode, [c EXCEPT !.loc = @ + 1], cie, end), LAMBDA n :
         run_loop(n, cie, end, pc_offset)))

(* instruction::run_: Ok(result) *)
run_(result, cie, start, end, pc_offset) ==
    run_loop([ loc |-> start, code_offset |-> 0,
               st |-> [result |-> result, initial_state |-> PrologInfoDefault],
               remember_stack |-> <<>> ],
             cie, end, pc_offset)

(* instruction::run: the CIE's initial instructions, then the FDE's up to pc *)
run(target, fde, cie) ==
    Bind(run_(PrologInfoDefault, cie, cie.cie_instructions,
              cie.cie_start + cie.cie_length, U64_MAX),
         LAMBDA initial :
            run_(initial, cie, fde.fde_instructions,
                 fde.fde_start + fde.fde_length, target - fde.pc_start))

-----------------------------------------------------------------------------
(* dwarf: the step driver.                                                  *)

(* A register bank that ignores every store *)
Registers_set_dropped(regs, index, v) == Ok(regs)

(* new_registers[n] = v *)
Registers_set(regs, index, v) ==
    Bind(RegisterSlot(platform, index), LAMBDA slot : Ok([regs EXCEPT ![slot] = v]))

(* The `for n in 0..=Registers::max_register_num()` loop of dwarf::step;    *)
(* acc = [new_registers, return_address].                                   *)
RECURSIVE restore_registers(_, _, _, _, _, _)
restore_registers(n, info, cie, regs, cfa, acc) ==
    IF n > max_register_num THEN Ok(acc)
    ELSE IF info.saved_registers[n].location # "Unused"
    THEN IF valid_float_register(n) \/ valid_vector_register(n)
         THEN Bind(get_saved_wide_register(regs, info.saved_registers[n], cfa, 8),
                   LAMBDA v : Abort("unreachable!() in Registers::set_float_register"))
         ELSE IF n # cie.return_address_register /\ ~valid_register(n)
         THEN Err(<<"InvalidRegisterNumber", n>>)
         ELSE Bind(get_saved_register(regs, info.saved_registers[n], cfa), LAMBDA v :
              IF n = cie.return_address_register
              THEN restore_registers(n + 1, info, cie, regs, cfa,
                                     [acc EXCEPT !.return_address = v])
              ELSE Bind(Registers_set(acc.new_registers, n, v), LAMBDA w :
                   restore_registers(n + 1, info, cie, regs, cfa,
                                     [acc EXCEPT !.new_registers = w])))
    ELSE IF n = cie.return_address_register
    THEN \* Leaf function keeps the return address in register
         IF ~valid_register(cie.return_address_register)
         THEN Err(<<"InvalidReturnAddressRegisterNumber", cie.return_address_register>>)
         ELSE Bind(Registers_index(regs, cie.return_address_register), LAMBDA v :
              restore_registers(n + 1, info, cie, regs, cfa,
                                [acc EXCEPT !.return_address = v]))
    ELSE restore_registers(n + 1, info, cie, regs, cfa, acc)

(* What a successful dwarf::step leaves behind, for the properties below:   *)
(* the CFA, the return address, the CIE's return address register and the   *)
(* rule of every register 0..=max_register_num.                             *)
Frame(info, cie, cfa, return_address) ==
    [ cfa |-> cfa, return_address |-> return_address,
      ra_register |-> cie.return_address_register,
      rules |-> [n \in 0 .. max_register_num |-> info.saved_registers[n]] ]

(* dwarf::step, from the FDE and CIE found for target: Ok([registers, frame]) *)
dwarf_step(target, fde, cie, regs) ==
    Bind(run(target, fde, cie), LAMBDA info :
    Bind(PrologInfo_cfa(info, regs), LAMBDA cfa :
    Bind(Registers_set(regs, UNW_REG_SP, cfa), LAMBDA with_sp :
    Bind(restore_registers(0, info, cie, regs, cfa,
                           [new_registers |-> with_sp, return_address |-> 0]),
         LAMBDA acc :
    Bind(Registers_set(acc.new_registers, UNW_REG_IP, acc.return_address),
         LAMBDA new_registers :
    Ok([ registers |-> new_registers,
         frame |-> Frame(info, cie, cfa, acc.return_address) ]))))))

IsFDENotFound(r) == r.st = "Err" /\ r.v[1] = "FDENotFound"

(* A lookup that never falls back to the scan *)
or_scan_never(found, eh_frame, target) == found

(* `match header.search(pc) { Ok(v) => Ok(v), Err(FDENotFound) => scan(..), *)
(* Err(err) => Err(err) }`, found being what header.search returned         *)
or_scan(found, eh_frame, target) ==
    IF IsFDENotFound(found) THEN scan(eh_frame, U64_MAX, target) ELSE found

(* dwarf::search_fde: the binary search, then the full scan on FDENotFound *)
search_fde(target, s) ==
    Bind(EhFrameHeader_decode(s.eh_frame_hdr, s.eh_frame_hdr + s.eh_frame_hdr_len),
         LAMBDA header :
            or_scan(EhFrameHeader_search(header, target), header.eh_frame, target))

-----
(* dyld: the module index.                                                  *)

SectionInfo_contains(s, target) == s.text <= target /\ target < s.text + s.text_len

-----------------------------------------------------------------------------
(* cursor: UnwindCursor::step on each platform.  A step yields a record     *)
(*   result      what the call returned (Ok(TRUE) / Ok(FALSE) / Err / ...)  *)
(*   registers   the caller's register bank after the call                  *)
(*   first_step  UnwindCursor.first_step after the call                     *)
(*   lookup      <<pc>> used for the module and FDE lookup, <<>> if none    *)
(*   read        whether the call read memory                               *)
(*   frame       what dwarf::step computed (Linux, successful steps)        *)

NoFrame == [cfa |-> 0, return_address |-> 0, ra_register |-> 0, rules |-> <<>>]

StepOutcome(result, regs, fs, lookup, read, frame) ==
    [ result |-> result, registers |-> regs, first_step |-> fs,
      lookup |-> lookup, read |-> read, frame |-> frame ]

(* The first section of the list that contains pc, as `for s in sections` *)
FirstSectionContaining(secs, target) ==
    LET hits == {i \in 1 .. Len(secs) : SectionInfo_contains(secs[i], target)}
    IN  IF hits = {} THEN 0 ELSE CHOOSE i \in hits : \A j \in hits : i <= j

(* A cursor that decrements on every step, the first included *)
lookup_pc_always_decrement(pc0, fs) == pc0 - 1

(* `if self.first_step { .. } else { pc -= 1; }`: the pc the lookups use *)
lookup_pc(pc0, fs) == IF fs THEN pc0 ELSE pc0 - 1

(* The rest of the body of `if s.contains(pc)`, fc being what the search    *)
(* and the scan found: Ok([found |-> FALSE]) for `return Ok(false)`,        *)
(* Ok([found |-> TRUE, registers, frame]) for `return Ok(true)`             *)
step_found(fc, target, regs) ==
    IF IsFDENotFound(fc) THEN Ok([found |-> FALSE])
    ELSE Bind(fc, LAMBDA v :
         Bind(dwarf_step(target, v.fde, v.cie, regs), LAMBDA stepped_ :
         Ok([ found |-> TRUE, registers |-> stepped_.registers,
              frame |-> stepped_.frame ])))

(* The body of `if s.contains(pc)` *)
step_in_section(s, target, regs) ==
    Bind(EhFrameHeader_decode(s.eh_frame_hdr, s.eh_frame_hdr + s.eh_frame_hdr_len),
         LAMBDA header :
            step_found(or_scan(EhFrameHeader_search(header, target),
                               header.eh_frame, target),
                       target, regs))

(* A step driver that works on the caller's bank in place: a failed step    *)
(* leaves the stack pointer it had already stored                           *)
section_outcome_in_place(r, target, regs) ==
    IF r.st = "Ok" /\ r.v.found
    THEN StepOutcome(Ok(TRUE), r.v.registers, FALSE, <<target>>, TRUE, r.v.frame)
    ELSE StepOutcome(IF r.st = "Ok" THEN Ok(FALSE) ELSE [st |-> r.st, v |-> r.v],
                     [regs EXCEPT ![UNW_X86_64_RSP] = 0], FALSE, <<target>>, TRUE, NoFrame)

(* What the step that looked target up in a section returns, r being the    *)
(* result of step_in_section                                                *)
section_outcome(r, target, regs) ==
    IF r.st # "Ok" THEN StepOutcome([st |-> r.st, v |-> r.v], regs, FALSE, <<target>>,
                                    TRUE, NoFrame)
    ELSE IF ~r.v.found THEN StepOutcome(Ok(FALSE), regs, FALSE, <<target>>, TRUE, NoFrame)
    ELSE StepOutcome(Ok(TRUE), r.v.registers, FALSE, <<target>>, TRUE, r.v.frame)

(* The `for s in self.sections` loop, target being the pc looked up *)
step_at(target, regs) ==
    IF FirstSectionContaining(sections, target) = 0
    THEN StepOutcome(Ok(FALSE), regs, FALSE, <<target>>, FALSE, NoFrame)
    ELSE section_outcome(
            step_in_section(sections[FirstSectionContaining(sections, target)],
                            target, regs),
            target, regs)

(* cursor::linux::UnwindCursor::step *)
linux_step(regs, fs) ==
    IF Registers_pc(regs) = 0 THEN StepOutcome(Ok(FALSE), regs, fs, <<>>, FALSE, NoFrame)
    ELSE step_at(lookup_pc(Registers_pc(regs), fs), regs)

(* cursor::macos::aarch64::UnwindCursor::step *)
macos_aarch64_step(regs, fs) ==
    LET fp  == regs[UNW_ARM64_FP]
        ip  == load(fp + 8, 8)
        nfp == load(fp, 8)
        r1  == [regs EXCEPT ![UNW_ARM64_PC] = ip.v]
        Out(result, newregs, read) == StepOutcome(result, newregs, fs, <<>>, read, NoFrame)
    IN  IF fp = 0 THEN Out(Ok(FALSE), regs, FALSE)
        ELSE IF ~IsOk(ip) THEN Out(ip, regs, TRUE)
        ELSE IF ~IsOk(nfp) THEN Out(nfp, r1, TRUE)
        ELSE Out(Ok(TRUE), [r1 EXCEPT ![UNW_ARM64_FP] = nfp.v], TRUE)

(* UnwindCursor::step of the platform compiled in *)
cursor_step(regs, fs) ==
    IF platform = "linux_x64" THEN linux_step(regs, fs) ELSE macos_aarch64_step(regs, fs)

-----------------------------------------------------------------------------
(* The inputs explored: one module's unwind metadata, assembled by hand,    *)
(* a small stack, and the register snapshots a run can start from.          *)

(* .eh_frame_hdr at 512: version 1, eh_frame_ptr udata2, fde_count udata2,  *)
(* table udata2; eh_frame at 564; 11 table entries (initial location, FDE). *)
EhFrameHdrBytes ==
    << 1, 2, 2, 2, 52, 2, 11, 0,
       0, 16, 115, 2,
       16, 16, 136, 2,
       32, 16, 150, 2,
       64, 16, 165, 2,
       80, 16, 180, 2,
       96, 16, 194, 2,
       112, 16, 210, 2,
       128, 16, 226, 2,
       144, 16, 242, 2,
       160, 16, 3, 3,
       176, 16, 17, 3 >>

(* .eh_frame at 564 *)
EhFrameBytes ==
       \* 564: CIE 1: version 1, "zR", code_align 1, data_align -8, ra r16, R=udata2; def_cfa r7+8; offset r16 at cfa-8
    << 18, 0, 0, 0, 0, 0, 0, 0, 1, 122, 82, 0, 1, 120, 16, 1, 2, 12, 7, 8, 144, 1,
       \* 586: CIE 2: version 1, "zR", code_align 1, data_align -8, ra r16, R=udata2; nop; nop
       15, 0, 0, 0, 0, 0, 0, 0, 1, 122, 82, 0, 1, 120, 16, 1, 2, 0, 0,
       \* 605: CIE 3: version 1, "zR", code_align 1, data_align -8, ra r3, R=udata2; def_cfa r7+8; offset r3 at cfa-8
       18, 0, 0, 0, 0, 0, 0, 0, 1, 122, 82, 0, 1, 120, 3, 1, 2, 12, 7, 8, 131, 1,
       \* 627: FDE f_frame [0x1000, 0x1010) of CIE 1: advance_loc 1; def_cfa_offset 16; offset r6 at cfa-16; advance_loc 3; def_cfa_register r6
       17, 0, 0, 0, 67, 0, 0, 0, 0, 16, 16, 0, 0, 65, 14, 16, 134, 2, 67, 13, 6,
       \* 648: FDE f_leaf [0x1010, 0x1020) of CIE 1: nop
       10, 0, 0, 0, 88, 0, 0, 0, 16, 16, 16, 0, 0, 0,
       \* 662: FDE f_root [0x1020, 0x1030) of CIE 1: undefined r16 (end of stack)
       11, 0, 0, 0, 102, 0, 0, 0, 32, 16, 16, 0, 0, 7, 16,
       \* 677: FDE f_sp [0x1040, 0x1050) of CIE 1: offset r7 at cfa-16
       11, 0, 0, 0, 117, 0, 0, 0, 64, 16, 16, 0, 0, 135, 2,
       \* 692: FDE f_nocfa [0x1050, 0x1060) of CIE 2: nop (CIE 2 defines no CFA)
       10, 0, 0, 0, 110, 0, 0, 0, 80, 16, 16, 0, 0, 0,
       \* 706: FDE f_valoff [0x1060, 0x1070) of CIE 1: val_offset r3, 1
       12, 0, 0, 0, 146, 0, 0, 0, 96, 16, 16, 0, 0, 20, 3, 1,
       \* 722: FDE f_inreg [0x1070, 0x1080) of CIE 1: register r3 in r6
       12, 0, 0, 0, 162, 0, 0, 0, 112, 16, 16, 0, 0, 9, 3, 6,
       \* 738: FDE f_loop [0x1080, 0x1090) of CIE 1: def_cfa r3+8
       12, 0, 0, 0, 178, 0, 0, 0, 128, 16, 16, 0, 0, 12, 3, 8,
       \* 754: FDE f_expr [0x1090, 0x10a0) of CIE 1: def_cfa_expression {breg7 8}
       13, 0, 0, 0, 194, 0, 0, 0, 144, 16, 16, 0, 0, 15, 2, 119, 8,
       \* 771: FDE f_ra3 [0x10a0, 0x10b0) of CIE 3: nop (CIE 3: return address in r3)
       10, 0, 0, 0, 170, 0, 0, 0, 160, 16, 16, 0, 0, 0,
       \* 785: FDE f_badop [0x10b0, 0x10c0) of CIE 1: opcode 0x3f
       10, 0, 0, 0, 225, 0, 0, 0, 176, 16, 16, 0, 0, 63,
       \* 799: zero terminator
       0, 0, 0, 0 >>


(* The stack of the Linux runs, 64-bit words from 2048 upwards *)
LinuxStackWords ==
    << 4104,    \* 2048: return address into f_frame
       2072,    \* 2056: saved rbp (the frame of f_frame is at rbp = 2056)
       4133,    \* 2064: return address into f_root
       0,       \* 2072
       4229,    \* 2080: return address into f_loop (rbx = 2080 there)
       4133,    \* 2088: return address into f_root
       4277,    \* 2096: return address into f_badop
       8192 >>  \* 2104: return address outside every module

(* The frame records {fp, lr} of the macOS runs *)
MacStackWords ==
    << 2064, 4104,     \* 2048: caller's fp, return address
       0, 4133,        \* 2064: the outermost frame record
       2080, 4229 >>   \* 2080: a frame record whose caller's fp is itself

Segment(base, bytes) ==
    [a \in base .. (base + Len(bytes) - 1) |-> bytes[a - base + 1]]

WordSegment(base, words) ==
    [a \in base .. (base + 8 * Len(words) - 1) |->
        IF (a - base) % 8 >= 4 THEN 0      \* every word here is below 2^32
        ELSE (words[((a - base) \div 8) + 1] \div Pow256((a - base) % 8)) % 256]

LinuxImage ==
    Segment(512, EhFrameHdrBytes) @@ Segment(564, EhFrameBytes)
        @@ WordSegment(2048, LinuxStackWords)

(* The same module with a table encoding of uleb128 / a header version of 2 / *)
(* a search table that lists f_frame only (fde_count = 1) / that table and   *)
(* a CIE 3 of version 2, which a scan of .eh_frame meets before any FDE      *)
LinuxImages ==
    { LinuxImage, [LinuxImage EXCEPT ![515] = 1], [LinuxImage EXCEPT ![512] = 2],
      [LinuxImage EXCEPT ![518] = 1], [LinuxImage EXCEPT ![518] = 1, ![613] = 2] }

MacImage == WordSegment(2048, MacStackWords)

LinuxSections ==
    << [ base |-> 0, text |-> 4096, text_len |-> 192,
         eh_frame_hdr |-> 512, eh_frame_hdr_len |-> 52, max_addr |-> 4288 ] >>

(* MAPS as /proc/self/maps gives it: the maximal runs of mapped addresses *)
MapsOf(m) ==
    LET D == DOMAIN m
        RunEnd(a) == CHOOSE b \in D :
                        b >= a /\ (b + 1) \notin D /\ \A z \in a .. b : z \in D
    IN  { [start |-> a, end |-> RunEnd(a) + 1] : a \in {x \in D : (x - 1) \notin D} }

X64Registers(rip, rsp, rbp, rbx) ==
    [n \in RegisterSlots("linux_x64") |->
        CASE n = UNW_X86_64_RIP -> rip
          [] n = UNW_X86_64_RSP -> rsp
          [] n = UNW_X86_64_RBP -> rbp
          [] n = 3 -> rbx
          [] OTHER -> 0]

Arm64Registers(pc_, fp) ==
    [n \in RegisterSlots("macos_aarch64") |->
        CASE n = UNW_ARM64_PC -> pc_
          [] n = UNW_ARM64_FP -> fp
          [] OTHER -> 0]

LinuxSnapshots ==
    { X64Registers(4114, 2048, 2056, 0),    \* in f_leaf, called from f_frame from f_root
      X64Registers(4096, 2064, 0, 0),       \* at the first instruction of f_frame
      X64Registers(0, 2048, 2056, 0),       \* no PC
      X64Registers(4114, 2304, 0, 0),       \* in f_leaf with the stack pointer off the stack
      X64Registers(4114, 2096, 0, 0),       \* in f_leaf, called from f_badop
      X64Registers(4114, 2104, 0, 0),       \* in f_leaf, called from outside every module
      X64Registers(4148, 2048, 0, 0),       \* between two functions
      X64Registers(4164, 2088, 0, 0),       \* in f_sp
      X64Registers(4180, 2048, 0, 0),       \* in f_nocfa
      X64Registers(4196, 2048, 0, 0),       \* in f_valoff
      X64Registers(4212, 2048, 0, 0),       \* in f_inreg
      X64Registers(4228, 2048, 0, 2080),    \* in f_loop
      X64Registers(4244, 2088, 0, 0),       \* in f_expr
      X64Registers(4260, 2088, 0, 7),       \* in f_ra3
      X64Registers(12288, 2048, 0, 0) }     \* outside every module

MacSnapshots ==
    { Arm64Registers(4114, 2048), Arm64Registers(0, 2048), Arm64Registers(4114, 0),
      Arm64Registers(4114, 2080), Arm64Registers(4114, 2304) }

Snapshots(p) == IF p = "linux_x64" THEN LinuxSnapshots ELSE MacSnapshots

-----------------------------------------------------------------------------
(* lib: trace and trace_from_ucontext, and a caller that drives an          *)
(* UnwindCursor directly (as tests/cursor.rs does).                         *)

MaxSteps == 10          \* step calls followed in one trace
MaxCursorCalls == 3     \* step calls followed on a directly driven cursor

(* impl From<DwarfError> for Error: what `?` / `.into()` make of a failure *)
IntoError(r) == IF r.st = "Err" THEN Err(<<"Dwarf", r.v>>) ELSE r

(* Registers::from_ucontext: None for a null ucontext (or mcontext) *)
from_ucontext(ucontext, regs) ==
    IF ucontext = "valid" THEN <<regs>> ELSE <<>>

(* Entry points that both call f first, or both step first *)
FirstPosition_callback(e) == "cb"
FirstPosition_step(e) == "step"

(* Where each entry point goes first: trace steps before it calls f,        *)
(* trace_from_ucontext calls f once before it steps.                        *)
FirstPosition(e) == IF e = "trace" THEN "step" ELSE "cb"

(* A loop that goes on whatever f answered *)
AfterCallback_ignored(b) == "step"

(* `if !f(&registers) { return Ok(false); }` *)
AfterCallback(b) == IF b THEN "step" ELSE "done"

(* A loop that ends with Ok(true) whatever step returned *)
trace_return_swallowed(r) == Ok(TRUE)

(* `while cursor.step(&mut registers)? { .. } Ok(true)` *)
AfterStep(r) == IF Returned(r, TRUE) THEN "cb" ELSE "done"
trace_return(r) == IF Returned(r, FALSE) THEN Ok(TRUE) ELSE r

(* Nothing but the unwind of one thread is followed *)
NoProcess == [kind |-> "none"]
NoProbe == [kind |-> "none"]

NoStep ==
    [ called |-> FALSE, n |-> 0, nonzero |-> 0, result |-> Ok(FALSE),
      old |-> <<>>, new |-> <<>>, lookup |-> <<>>, read |-> FALSE, frame |-> NoFrame ]

(* What a call of cursor.step leaves behind, o being its outcome: whether   *)
(* step was called, how many calls there were, how many of them had a       *)
(* non-zero pc, the result, the register bank before and after, the pc      *)
(* looked up, whether memory was read, and the frame dwarf::step computed.  *)
StepRecord(o, regs) ==
    [ called |-> TRUE, n |-> last.n + 1,
      nonzero |-> last.nonzero + (IF Registers_pc(regs) # 0 THEN 1 ELSE 0),
      result |-> IntoError(o.result), old |-> regs, new |-> o.registers,
      lookup |-> o.lookup, read |-> o.read, frame |-> o.frame ]

Init ==
    /\ platform \in {"linux_x64", "macos_aarch64"}
    /\ mem \in (IF platform = "linux_x64" THEN LinuxImages ELSE {MacImage})
    /\ maps = MapsOf(mem)
    /\ sections = (IF platform = "linux_x64" THEN LinuxSections ELSE <<>>)
    /\ snapshot \in Snapshots(platform)
    /\ registers = snapshot
    /\ build \in {"slot_intact", "slot_clobbered"}
    /\ entry \in {"trace", "trace_from_ucontext", "cursor"}
    /\ first_step = TRUE
    /\ pc = (IF entry = "cursor" THEN "api" ELSE "start")
    /\ ret = <<>>
    /\ stepped = <<>>
    /\ delivered = <<>>
    /\ cb_false = FALSE
    /\ last = NoStep
    /\ proc = NoProcess
    /\ probe = NoProbe

(* trace: unwind_init_registers, UnwindCursor::new *)
StartTrace ==
    /\ pc = "start"
    /\ entry = "trace"
    /\ pc' = FirstPosition(entry)
    /\ UNCHANGED << platform, mem, maps, sections, registers, first_step, entry, ret,
                    stepped, delivered, cb_false, last, build, snapshot,
                    proc, probe >>

(* trace_from_ucontext: Registers::from_ucontext, UnwindCursor::new *)
StartTraceFromUcontext ==
    /\ pc = "start"
    /\ entry = "trace_from_ucontext"
    /\ \E ucontext \in {"null", "null_mcontext", "valid"} :
          /\ ucontext = "null_mcontext" => platform = "macos_aarch64"
          /\ IF from_ucontext(ucontext, registers) = <<>>
             THEN pc' = "done" /\ ret' = Err(<<"InvalidUcontext">>)
             ELSE pc' = FirstPosition(entry) /\ ret' = ret
    /\ UNCHANGED << platform, mem, maps, sections, registers, first_step, entry,
                    stepped, delivered, cb_false, last, build, snapshot,
                    proc, probe >>

(* What a call of cursor.step, o being its outcome, does to the caller's    *)
(* register bank and to the cursor                                          *)
StepTaken(o) ==
    /\ registers' = o.registers
    /\ first_step' = o.first_step
    /\ last' = StepRecord(o, registers)

(* One `cursor.step(&mut registers)?` of the while loop, r its result *)
LoopStep(o, r) ==
    /\ StepTaken(o)
    /\ stepped' = IF Returned(r, TRUE) THEN Append(stepped, o.registers) ELSE stepped
    /\ pc' = AfterStep(r)
    /\ ret' = IF AfterStep(r) = "done" THEN trace_return(r) ELSE ret

TraceStep ==
    /\ pc = "step"
    /\ last.n < MaxSteps
    /\ \E o \in {cursor_step(registers, first_step)} : LoopStep(o, IntoError(o.result))
    /\ UNCHANGED << platform, mem, maps, sections, entry, delivered, cb_false, build,
                    snapshot,
                    proc, probe >>

(* One `f(&registers)`: the closure may answer either way *)
Callback ==
    /\ pc = "cb"
    /\ \E b \in BOOLEAN :
          /\ delivered' = Append(delivered, registers)
          /\ cb_false' = (cb_false \/ ~b)
          /\ pc' = AfterCallback(b)
          /\ ret' = IF AfterCallback(b) = "done" THEN Ok(FALSE) ELSE ret
    /\ UNCHANGED << platform, mem, maps, sections, registers, first_step, entry,
                    stepped, last, build, snapshot,
                    proc, probe >>

(* A caller of the cursor API calls step; a panic or a fault ends the run *)
ApiStep(o, r) ==
    /\ StepTaken(o)
    /\ pc' = IF r.st \in {"Ok", "Err"} THEN "api" ELSE "done"
    /\ ret' = IF r.st \in {"Ok", "Err"} THEN ret ELSE r

CursorStep ==
    /\ pc = "api"
    /\ last.n < MaxCursorCalls
    /\ \E o \in {cursor_step(registers, first_step)} : ApiStep(o, IntoError(o.result))
    /\ UNCHANGED << platform, mem, maps, sections, entry, stepped, delivered, cb_false,
                    build, snapshot,
                    proc, probe >>

(* ... or, a walk having ended, stores another snapshot in its register bank *)
(* and walks again with the same cursor                                     *)
CursorSeed ==
    /\ pc = "api"
    /\ last.n < MaxCursorCalls
    /\ last.called /\ ~Returned(last.result, TRUE) /\ registers = last.old
    /\ \E r \in Snapshots(platform) : r # registers /\ registers' = r
    /\ UNCHANGED << platform, mem, maps, sections, first_step, entry, pc, ret,
                    stepped, delivered, cb_false, last, build, snapshot,
                    proc, probe >>

Next ==
    \/ StartTrace
    \/ StartTraceFromUcontext
    \/ TraceStep
    \/ Callback
    \/ CursorStep
    \/ CursorSeed

Spec == Init /\ [][Next]_vars


-----------------------------------------------------------------------------
(* Properties of the step and of the two trace loops.                       *)

Linux == platform = "linux_x64"
Traced == entry \in {"trace", "trace_from_ucontext"}

(* The number of frames the stack of the run can hold: its size over the    *)
(* smallest frame (one word on x86_64, one {fp, lr} record on aarch64)      *)
StackDepth ==
    IF Linux THEN Len(LinuxStackWords) ELSE Len(MacStackWords) \div 2

(* C1: during a DWARF step no read is made at an address that               *)
(* address_is_readable reports unreadable: such a read is replaced by       *)
(* Err(UnreadableAddress(addr)), so no step ends in a memory fault.         *)
C1_NoUnprotectedRead ==
    (Linux /\ last.called) => last.result.st # "Fault"

(* C2: whatever the metadata bytes and the stack content, step returns Ok   *)
(* or Err: it never ends in unreachable!(), a failed assert! or a panic.    *)
C2_StepNeverAborts ==
    last.called => last.result.st # "Abort"

(* C3: the loop of trace / trace_from_ucontext ends within a number of      *)
(* step calls bounded by the depth of the stack.                            *)
C3_LoopBoundedByStackDepth ==
    Traced => last.n <= StackDepth + 1

(* C4: in trace a step comes before every callback invocation, the          *)
(* callback never sees the initial snapshot, and the k-th invocation        *)
(* receives the registers the k-th successful step produced.                *)
C4_TraceStepsBeforeCallback ==
    entry = "trace" =>
        /\ Len(delivered) <= Len(stepped)
        /\ Len(stepped) <= Len(delivered) + 1
        /\ \A k \in 1 .. Len(delivered) : delivered[k] = stepped[k]
        /\ (pc = "cb" => Len(stepped) = Len(delivered) + 1)
        /\ (delivered # <<>> => last.called)

(* Two frames of a trace have been delivered *)
C4_TwoFramesDelivered ==
    entry = "trace" /\ Len(delivered) >= 2 /\ delivered[2] # delivered[1]

(* C5: trace_from_ucontext invokes the callback once on the registers       *)
(* decoded from the ucontext before any step, then once after each          *)
(* successful step; when no invocation returned false there are             *)
(* 1 + (successful steps) invocations.                                      *)
C5_UcontextFrameFirst ==
    entry = "trace_from_ucontext" =>
        /\ (last.called => delivered # <<>>)
        /\ (delivered # <<>> => delivered[1] = snapshot)
        /\ \A k \in 1 .. Len(stepped) :
              k + 1 <= Len(delivered) => delivered[k + 1] = stepped[k]
        /\ Len(delivered) <= Len(stepped) + 1
        /\ ((pc \in {"step", "done"} /\ ~cb_false /\ delivered # <<>>)
               => Len(delivered) = Len(stepped) + 1)

(* A trace_from_ucontext that ended at the stack root after two steps, no   *)
(* invocation having returned false                                         *)
C5_ThreeFramesDelivered ==
    /\ entry = "trace_from_ucontext"
    /\ pc = "done"
    /\ ~cb_false
    /\ Len(stepped) = 2
    /\ Len(delivered) = 3

(* How a trace can have ended: with Ok(false) exactly when an invocation    *)
(* of the callback returned false, with Ok(true) only after a step that     *)
(* returned Ok(false), every invocation having returned true                *)
CancelOutcome ==
    Traced =>
        /\ (cb_false => pc = "done" /\ Returned(ret, FALSE))
        /\ ((pc = "done" /\ Returned(ret, FALSE)) => cb_false)
        /\ ((pc = "done" /\ Returned(ret, TRUE))
               => ~cb_false /\ last.called /\ Returned(last.result, FALSE))

(* C6: the callback's answer is the only way to cancel.  Once an invocation *)
(* returned false the function has returned Ok(false) and nothing more is   *)
(* stepped or delivered; Ok(false) is returned for no other reason; and     *)
(* Ok(true) is returned only when a step returned Ok(false) and every       *)
(* invocation returned true.                                                *)
C6_CallbackIsOnlyCancel ==
    /\ []CancelOutcome
    /\ [][cb_false => UNCHANGED <<stepped, delivered, last, registers>>]_vars

(* A trace cancelled by the callback after frames had been stepped *)
C6_CancelledAfterSteps ==
    Traced /\ cb_false /\ pc = "done" /\ Len(stepped) >= 2

(* The function returned the Err the last step returned *)
ReturnedStepErr == ret.st = "Err" /\ last.result.st = "Err" /\ ret.v = last.result.v

(* C7: trace and trace_from_ucontext return Err at the first failure: a     *)
(* null ucontext gives Err(InvalidUcontext) before any invocation or step,  *)
(* a step that returns Err ends the function with that Err, no invocation   *)
(* follows it, and every frame unwound before it has been delivered.        *)
C7_ErrAtFirstFailure ==
    Traced =>
        /\ ((last.called /\ last.result.st = "Err")
               => /\ pc = "done"
                  /\ ReturnedStepErr
                  /\ Len(delivered) =
                        Len(stepped) + (IF entry = "trace" THEN 0 ELSE 1))
        /\ ((pc = "done" /\ ret.st = "Err" /\ ret.v[1] = "InvalidUcontext")
               => /\ entry = "trace_from_ucontext"
                  /\ delivered = <<>>
                  /\ ~last.called)
        /\ ((pc = "done" /\ ret.st = "Err" /\ ret.v[1] # "InvalidUcontext")
               => last.called /\ ReturnedStepErr)

(* A step failed after frames had been unwound and delivered *)
C7_ErrAfterDeliveredFrames ==
    /\ Traced
    /\ pc = "done"
    /\ ret.st = "Err"
    /\ ret.v[1] = "Dwarf"
    /\ Len(stepped) >= 1
    /\ Len(delivered) >= 1

(* C8: on every platform cursor a step called with registers.pc() = 0       *)
(* returns Ok(false), reads no memory and leaves the register bank as it    *)
(* was, whatever the other registers hold.                                  *)
C8_ZeroPcStopsEveryCursor ==
    (last.called /\ Registers_pc(last.old) = 0)
        => Returned(last.result, FALSE) /\ ~last.read /\ last.new = last.old

(* C9: the pc a Linux step looks up is registers.pc() itself on the first   *)
(* step that finds registers.pc() # 0 and registers.pc() - 1 on every later *)
(* one; a step that finds registers.pc() = 0 looks nothing up and is not    *)
(* counted as the first.                                                    *)
C9_DecrementAfterFirstLookup ==
    (Linux /\ last.called) =>
        IF Registers_pc(last.old) = 0 THEN last.lookup = <<>>
        ELSE last.lookup =
                << IF last.nonzero = 1 THEN Registers_pc(last.old)
                   ELSE Registers_pc(last.old) - 1 >>

(* C9 as stated: registers.pc() on the first call of step, registers.pc()   *)
(* - 1 on every later call, whatever the earlier calls returned.            *)
C9_DecrementAfterFirstCall ==
    (Linux /\ last.called /\ last.lookup # <<>>) =>
        last.lookup =
            << IF last.n = 1 THEN Registers_pc(last.old)
               ELSE Registers_pc(last.old) - 1 >>

(* A call of step that is not the cursor's first and is the first to find a pc *)
C9_LaterCallFirstLookup ==
    Linux /\ last.called /\ last.n >= 2 /\ last.nonzero = 1 /\ last.lookup # <<>>

(* The last call was a DWARF step that returned Ok(true) *)
DwarfStepped == Linux /\ last.called /\ Returned(last.result, TRUE)

(* Register n has a rule other than Unused in the frame just unwound *)
Ruled(n) == last.frame.rules[n].location # "Unused"

(* What the rule of register n restores from the old register bank *)
Restored(n) == get_saved_register(last.old, last.frame.rules[n], last.frame.cfa).v

(* C10: after every successful DWARF step the new PC is the return address  *)
(* obtained from the unwind info; the new SP is the CFA unless the CFI      *)
(* gives SP a rule, which then decides it; every other register with a      *)
(* non-Unused rule, the CIE's return address register excepted, holds what  *)
(* its rule restores; and every other register keeps its old value.         *)
C10_StepRestoresRuledRegisters ==
    DwarfStepped =>
        /\ last.new[UNW_X86_64_RIP] = last.frame.return_address
        /\ last.new[UNW_X86_64_RSP] =
              (IF Ruled(UNW_X86_64_RSP) /\ last.frame.ra_register # UNW_X86_64_RSP
               THEN Restored(UNW_X86_64_RSP) ELSE last.frame.cfa)
        /\ \A n \in RegisterSlots("linux_x64") \ {UNW_X86_64_RIP, UNW_X86_64_RSP} :
              last.new[n] =
                 (IF Ruled(n) /\ n # last.frame.ra_register
                  THEN Restored(n) ELSE last.old[n])
        /\ registers = last.new

(* C10 as stated: new PC = return address, new SP = CFA, and the registers  *)
(* whose values changed are exactly PC, SP and those with a non-Unused rule *)
C10_ChangedExactlyRuledRegisters ==
    DwarfStepped =>
        /\ last.new[UNW_X86_64_RIP] = last.frame.return_address
        /\ last.new[UNW_X86_64_RSP] = last.frame.cfa
        /\ \A n \in RegisterSlots("linux_x64") :
              (last.new[n] # last.old[n])
                 <=> (n \in {UNW_X86_64_RIP, UNW_X86_64_RSP} \/ Ruled(n))

(* A successful step through a frame whose CFI gives SP a rule, the new SP  *)
(* being the restored value and not the CFA                                 *)
C10_StackPointerRuled ==
    /\ DwarfStepped
    /\ Ruled(UNW_X86_64_RSP)
    /\ last.new[UNW_X86_64_RSP] # last.frame.cfa
    /\ last.new[UNW_X86_64_RIP] # last.old[UNW_X86_64_RIP]

LastSection == sections[FirstSectionContaining(sections, last.lookup[1])]
LastHeader ==
    EhFrameHeader_decode(LastSection.eh_frame_hdr,
                         LastSection.eh_frame_hdr + LastSection.eh_frame_hdr_len)
LastSearch == EhFrameHeader_search(LastHeader.v, last.lookup[1])
LastScan == scan(LastHeader.v.eh_frame, U64_MAX, last.lookup[1])
ReturnedDwarfErr(r) ==
    r.st = "Err" /\ last.result.st = "Err" /\ last.result.v = <<"Dwarf", r.v>>
LastStepFDENotFound ==
    last.result.st = "Err" /\ last.result.v[1] = "Dwarf"
        /\ last.result.v[2][1] = "FDENotFound"

(* C12: in the cursor's step FDENotFound from the .eh_frame_hdr search      *)
(* starts a full scan of .eh_frame, FDENotFound from the scan makes the     *)
(* step return Ok(false), FDENotFound never reaches the caller, and every   *)
(* other error of the header, the search or the scan is returned as Err.    *)
C12_OnlyFDENotFoundRecovered ==
    (Linux /\ last.called /\ last.read) =>
        /\ ~LastStepFDENotFound
        /\ LastHeader.st = "Err" => ReturnedDwarfErr(LastHeader)
        /\ LastHeader.st = "Ok" =>
            /\ (LastSearch.st = "Err" /\ ~IsFDENotFound(LastSearch))
                    => ReturnedDwarfErr(LastSearch)
            /\ IsFDENotFound(LastSearch) =>
                /\ IsFDENotFound(LastScan) <=> Returned(last.result, FALSE)
                /\ (LastScan.st = "Err" /\ ~IsFDENotFound(LastScan))
                        => ReturnedDwarfErr(LastScan)
                /\ LastScan.st = "Ok" => ~Returned(last.result, FALSE)
            /\ Returned(last.result, FALSE) => IsFDENotFound(LastSearch)

(* The search missed the function, the scan found it and the step went on *)
C12_ScanFoundAfterSearchMiss ==
    /\ Linux /\ last.called /\ last.read /\ LastHeader.st = "Ok"
    /\ IsFDENotFound(LastSearch) /\ LastScan.st = "Ok"
    /\ Returned(last.result, TRUE)

-----------------------------------------------------------------------------
(* The lazily built caches.  SECTIONS is a lazy_static, built by            *)
(* init_sections at its first dereference, which is the first               *)
(* UnwindCursor::new of the process; MAPS is a thread_local!, built by      *)
(* MapsReader at the first address_is_readable of each thread.  A process   *)
(* of NumThreads threads is followed: each thread unwinds in its normal     *)
(* context (as trace does) or inside the handler of a signal that           *)
(* interrupted it (as tests/signal_handler.rs does).                        *)
(*   proc.SECTIONS      "uninit" | "ready"                                  *)
(*   proc.MAPS[t]       "uninit" | "ready"                                  *)
(*   proc.context[t]    "normal" | "signal": where thread t runs            *)
(*   proc.cursor[t][c]  whether t holds an UnwindCursor in context c        *)
(*   proc.inits         the initializations done: what, by whom, where      *)

NumThreads == 2
Threads == 1 .. NumThreads

ProcessStart ==
    [ kind |-> "process", SECTIONS |-> "uninit",
      MAPS |-> [t \in Threads |-> "uninit"],
      context |-> [t \in Threads |-> "normal"],
      cursor |-> [t \in Threads |-> [normal |-> FALSE, signal |-> FALSE]],
      inits |-> {} ]

Initialization(p, what, t) == [what |-> what, thread |-> t, context |-> p.context[t]]

(* dyld::sections: `&SECTIONS`; the first dereference runs init_sections    *)
(* (dl_iterate_phdr) in the caller's context                                *)
dyld_sections(p, t) ==
    IF p.SECTIONS = "uninit"
    THEN [p EXCEPT !.SECTIONS = "ready",
                   !.inits = @ \cup {Initialization(p, "SECTIONS", t)}]
    ELSE p

(* `MAPS.with(..)` of address_is_readable; the first call on a thread runs  *)
(* MapsReader::open().unwrap().read_maps().unwrap() in the caller's context *)
MAPS_with(p, t) ==
    IF p.MAPS[t] = "uninit"
    THEN [p EXCEPT !.MAPS[t] = "ready",
                   !.inits = @ \cup {Initialization(p, "MAPS", t)}]
    ELSE p

(* UnwindCursor::new: `sections: sections(), first_step: true` *)
UnwindCursor_new(p, t) ==
    [dyld_sections(p, t) EXCEPT !.cursor[t][p.context[t]] = TRUE]

(* UnwindCursor::step: a step that looks its pc up in a section probes      *)
(* memory through address_is_readable, a step with pc == 0 or with a pc     *)
(* outside every section returns before it does                             *)
UnwindCursor_step(p, t, probes) == IF probes THEN MAPS_with(p, t) ELSE p

(* The kernel delivers SIGPROF to thread t *)
SignalDelivered(t) ==
    /\ proc.context[t] = "normal"
    /\ proc' = [proc EXCEPT !.context[t] = "signal"]

(* perf_signal_handler returns: its cursor is dropped *)
HandlerReturn(t) ==
    /\ proc.context[t] = "signal"
    /\ proc' = [proc EXCEPT !.context[t] = "normal", !.cursor[t].signal = FALSE]

NewCursor(t) ==
    /\ ~proc.cursor[t][proc.context[t]]
    /\ proc' = UnwindCursor_new(proc, t)

StepCursor(t) ==
    /\ proc.cursor[t][proc.context[t]]
    /\ \E probes \in BOOLEAN : proc' = UnwindCursor_step(proc, t, probes)

(* trace returns: its cursor is dropped *)
DropCursor(t) ==
    /\ proc.context[t] = "normal"
    /\ proc.cursor[t].normal
    /\ proc' = [proc EXCEPT !.cursor[t].normal = FALSE]

(* The variables of one unwind, at rest *)
UnwindAtRest ==
    /\ sections = <<>>
    /\ snapshot = X64Registers(0, 0, 0, 0)
    /\ registers = snapshot
    /\ entry = "none"
    /\ first_step = TRUE
    /\ pc = "done"
    /\ ret = <<>>
    /\ stepped = <<>>
    /\ delivered = <<>>
    /\ cb_false = FALSE
    /\ last = NoStep

unwind_vars ==
    << platform, mem, maps, sections, registers, first_step, entry, pc, ret,
       stepped, delivered, cb_false, last, build, snapshot >>

NoUnwind ==
    /\ platform = "linux_x64"
    /\ mem = <<>>
    /\ maps = {}
    /\ build = "slot_intact"
    /\ UnwindAtRest

InitSignal == NoUnwind /\ proc = ProcessStart /\ probe = NoProbe

SignalActions ==
    \E t \in Threads :
        \/ SignalDelivered(t)
        \/ HandlerReturn(t)
        \/ NewCursor(t)
        \/ StepCursor(t)
        \/ DropCursor(t)

NextSignal == SignalActions /\ UNCHANGED << unwind_vars, probe >>

SpecSignal == InitSignal /\ [][NextSignal]_vars

(* C13: the module index and the thread-local memory-map cache are          *)
(* initialized outside any signal-handling context: every initialization    *)
(* (dl_iterate_phdr, reading /proc/self/task/<tid>/maps) was done by a      *)
(* thread in its normal context.                                            *)
C13_InitOutsideSignalHandler ==
    proc.kind = "process" => \A i \in proc.inits : i.context = "normal"

-----------------------------------------------------------------------------
(* dwarf::encoding on full 64-bit words.  The decoders above compute on     *)
(* the small values of the images explored; here the same functions are     *)
(* followed bit by bit, a u64 (or the two's complement of an i64) being     *)
(* the set of the positions of its one bits.  Arithmetic that overflows     *)
(* panics in a build with overflow checks (the dev and test profiles) and   *)
(* wraps in a build without (the release profile): probe.checks says which. *)

WordBits == 0 .. 63
SmallBits == 0 .. 30

(* The word of a natural below 2^31, and back *)
ToWord(n) == {i \in SmallBits : (n \div Pow2(i)) % 2 = 1}

RECURSIVE FromWord(_)
FromWord(w) ==
    IF w = {} THEN 0
    ELSE LET i == CHOOSE j \in w : TRUE IN Pow2(i) + FromWord(w \ {i})

WordShl(w, k) == {i + k : i \in w} \cap WordBits             \* w << k, k < 64
WordShr(w, k) == {i - k : i \in w \cap (k .. 63)}            \* w >> k on a u64
WordSar(w, k) ==                                             \* w >> k on an i64
    WordShr(w, k) \cup (IF 63 \in w THEN (64 - k) .. 63 ELSE {})
WordNot(w) == WordBits \ w

(* The carry into bit i of a + b + carry_in: some lower bit (or carry_in,   *)
(* at position -1) generates a carry that every bit between propagates      *)
CarryInto(a, b, carry_in, i) ==
    \E j \in (0 - 1) .. (i - 1) :
        /\ IF j < 0 THEN carry_in ELSE (j \in a /\ j \in b)
        /\ \A k \in (j + 1) .. (i - 1) : k \in a \/ k \in b

(* a + b + carry_in on 64 bits: [val, carry] *)
WordAddCarry(a, b, carry_in) ==
    [ val |-> {i \in WordBits : ((i \in a) # (i \in b)) # CarryInto(a, b, carry_in, i)},
      carry |-> CarryInto(a, b, carry_in, 64) ]

WordAdd(a, b) == WordAddCarry(a, b, FALSE)
WordSub(a, b) == WordAddCarry(a, WordNot(b), TRUE)           \* carry = no borrow
WordNeg(w) == WordAddCarry({}, WordNot(w), TRUE).val

OverflowChecks == probe.checks

(* a + b on u64 *)
CheckedAdd(a, b) ==
    IF WordAdd(a, b).carry /\ OverflowChecks
    THEN Abort("attempt to add with overflow")
    ELSE Ok(WordAdd(a, b).val)

(* a - b on u64 *)
CheckedSub(a, b) ==
    IF ~WordSub(a, b).carry /\ OverflowChecks
    THEN Abort("attempt to subtract with overflow")
    ELSE Ok(WordSub(a, b).val)

(* `(-v) as u64`, v an iN of n bytes held sign-extended: the negation is    *)
(* done on N bits, where the minimum value has no negative, and the cast    *)
(* sign-extends its result                                                  *)
NegatedAsU64(v, n) ==
    IF v = (8 * n - 1) .. 63
    THEN IF OverflowChecks THEN Abort("attempt to negate with overflow") ELSE Ok(v)
    ELSE Ok(WordNeg(v))

(* An offset that ignores the sign of the value *)
wide_signed_plus_offset_unsigned(v, n, offset) == CheckedAdd(v, offset)

(* `if v > 0 { v as u64 + offset } else { offset - ((-v) as u64) }` *)
wide_signed_plus_offset(v, n, offset) ==
    IF v # {} /\ 63 \notin v THEN CheckedAdd(v, offset)
    ELSE Bind(NegatedAsU64(v, n), LAMBDA m : CheckedSub(offset, m))

(* The n bytes at a, little-endian, as a word *)
RECURSIVE WordAt(_, _)
WordAt(a, n) ==
    IF n = 0 THEN {}
    ELSE WordAt(a, n - 1) \cup WordShl(ToWord(mem[a + n - 1]), 8 * (n - 1))

(* `as u64` of an iN of n bytes *)
SignExtend(w, n) == IF (8 * n - 1) \in w THEN w \cup ((8 * n) .. 63) ELSE w

(* dwarf::load_with_protect::<uN> / ::<iN> (signed), the address a word *)
wide_load(address, n, signed) ==
    IF ~(address \subseteq SmallBits /\ address_is_readable(FromWord(address)))
    THEN Err(<<"UnreadableAddress", address>>)
    ELSE IF ~Mapped(FromWord(address), n) THEN Fault(FromWord(address))
    ELSE Ok(IF signed THEN SignExtend(WordAt(FromWord(address), n), n)
            ELSE WordAt(FromWord(address), n))

RECURSIVE wide_uleb128_loop(_, _, _, _)
wide_uleb128_loop(loc, end, res, bit) ==
    IF loc = end THEN At(Err(<<"TruncatedUleb128Expression", loc>>), loc)
    ELSE Bind(At(load_with_protect(loc, 1), loc), LAMBDA byte :
         IF bit >= 64 \/ WordShr(WordShl(ToWord(byte % 128), bit), bit) # ToWord(byte % 128)
         THEN At(Err(<<"MalformedUleb128Expression", loc>>), loc)
         ELSE IF byte < 128
              THEN Ok([val |-> res \cup WordShl(ToWord(byte % 128), bit), loc |-> loc + 1])
              ELSE wide_uleb128_loop(loc + 1, end,
                                     res \cup WordShl(ToWord(byte % 128), bit), bit + 7))

(* decode_uleb128 *)
wide_decode_uleb128(loc, end) == wide_uleb128_loop(loc, end, {}, 0)

(* A decoder that never extends the sign *)
sleb128_sign_extend_never(res, byte, bit) == res

(* `if (byte & 0x40) != 0 && bit < 64 { res |= (u64::MAX << bit) as i64; }` *)
sleb128_sign_extend(res, byte, bit) ==
    IF (byte \div 64) % 2 = 1 /\ bit < 64 THEN res \cup WordShl(WordBits, bit) ELSE res

(* `((byte & 0b1111111) as u64) << bit`: a shift by 64 or more panics with  *)
(* overflow checks and shifts by bit % 64 without                           *)
sleb128_shifted(byte, bit) ==
    IF bit >= 64 /\ OverflowChecks THEN Abort("attempt to shift left with overflow")
    ELSE Ok(WordShl(ToWord(byte % 128), bit % 64))

RECURSIVE wide_sleb128_loop(_, _, _, _)
wide_sleb128_loop(loc, end, res, bit) ==
    IF loc = end THEN At(Err(<<"TruncatedSleb128Expression", loc>>), loc)
    ELSE Bind(At(load_with_protect(loc, 1), loc), LAMBDA byte :
         Bind(At(sleb128_shifted(byte, bit), loc + 1), LAMBDA b :
         IF byte < 128
         THEN Ok([val |-> sleb128_sign_extend(res \cup b, byte, bit + 7), loc |-> loc + 1])
         ELSE wide_sleb128_loop(loc + 1, end, res \cup b, bit + 7)))

(* decode_sleb128 *)
wide_decode_sleb128(loc, end) == wide_sleb128_loop(loc, end, {}, 0)

(* "Get value": the `match enc & 0b1111` of decode_pointer, k the masked enc *)
wide_decode_pointer_value(loc, end, k, offset) ==
    CASE k \in {DW_EH_PE_PTR, DW_EH_PE_UDATA2, DW_EH_PE_UDATA4, DW_EH_PE_UDATA8} ->
            Bind(At(wide_load(ToWord(loc), FixedSize(k), FALSE), loc), LAMBDA v :
            Bind(At(CheckedAdd(v, offset), loc + FixedSize(k)), LAMBDA res :
                 Ok([val |-> res, loc |-> loc + FixedSize(k)])))
      [] k \in {DW_EH_PE_SDATA2, DW_EH_PE_SDATA4, DW_EH_PE_SDATA8} ->
            Bind(At(wide_load(ToWord(loc), FixedSize(k), TRUE), loc), LAMBDA v :
            Bind(At(wide_signed_plus_offset(v, FixedSize(k), offset), loc + FixedSize(k)),
                 LAMBDA res : Ok([val |-> res, loc |-> loc + FixedSize(k)])))
      [] k = DW_EH_PE_ULEB128 ->
            Bind(wide_decode_uleb128(loc, end), LAMBDA d :
            Bind(At(CheckedAdd(d.val, offset), d.loc), LAMBDA res :
                 Ok([val |-> res, loc |-> d.loc])))
      [] k = DW_EH_PE_SLEB128 ->
            Bind(wide_decode_sleb128(loc, end), LAMBDA d :
            Bind(At(wide_signed_plus_offset(d.val, 8, offset), d.loc), LAMBDA res :
                 Ok([val |-> res, loc |-> d.loc])))
      [] OTHER -> At(Err(<<"InvalidPointerEncodingValue", k>>), loc)

(* "Calculate relative offset": the `match enc & 0b1110000`, ob the masked enc *)
wide_pointer_offset(loc, ob, datarel_base) ==
    CASE ob = DW_EH_PE_ABSPTR -> Ok({})
      [] ob = DW_EH_PE_PCREL -> Ok(ToWord(loc))
      [] ob = DW_EH_PE_DATAREL ->
            IF datarel_base = {} THEN At(Err(<<"InvalidDataRelBase", 0>>), loc)
            ELSE Ok(datarel_base)
      [] OTHER -> At(Err(<<"InvalidPointerEncodingOffset", ob>>), loc)

(* decode_pointer *)
wide_decode_pointer(loc, end, enc, datarel_base) ==
    Bind(wide_pointer_offset(loc, EncOffsetBits(enc), datarel_base), LAMBDA offset :
    Bind(wide_decode_pointer_value(loc, end, EncValueBits(enc), offset), LAMBDA res :
    IF EncIndirect(enc)
    THEN \* Dereference the pointer if necessary.
         Bind(At(wide_load(res.val, 8, FALSE), res.loc), LAMBDA d :
              Ok([val |-> d, loc |-> res.loc]))
    ELSE Ok(res)))

-----------------------------------------------------------------------------
(* The decoders on their own, as the tests of encoding.rs call them: a      *)
(* value is encoded at ProbeBase, one decoder is applied to it.             *)
(*   probe.kind     "uleb128" | "sleb128" | "pointer"                       *)
(*   probe.checks   whether the build checks arithmetic overflow            *)
(*   probe.value    the value encoded, a word (sign-extended if signed)     *)
(*   probe.bytes    its encoding                                            *)
(*   probe.done, probe.out   whether the decoder ran, and what it returned  *)

ProbeBase == 256
ProbeCell == ProbeBase + 16          \* a u64 an indirect pointer can refer to
CellWord == {0, 9, 33, 63}

(* The low 8 bits of w, a byte *)
LowByte(w) == FromWord(w \cap (0 .. 7))

(* The n low bytes of w, little-endian *)
WordBytes(w, n) == [i \in 1 .. n |-> LowByte(WordShr(w, 8 * (i - 1)))]

(* leb128::write::unsigned *)
RECURSIVE uleb128_bytes(_)
uleb128_bytes(w) ==
    IF WordShr(w, 7) = {} THEN << FromWord(w \cap (0 .. 6)) >>
    ELSE << FromWord(w \cap (0 .. 6)) + 128 >> \o uleb128_bytes(WordShr(w, 7))

(* leb128::write::signed *)
RECURSIVE sleb128_bytes(_)
sleb128_bytes(w) ==
    IF (WordSar(w, 7) = {} /\ 6 \notin w) \/ (WordSar(w, 7) = WordBits /\ 6 \in w)
    THEN << FromWord(w \cap (0 .. 6)) >>
    ELSE << FromWord(w \cap (0 .. 6)) + 128 >> \o sleb128_bytes(WordSar(w, 7))

(* The encoding at ProbeBase, bytes of 0xff up to ProbeCell, the cell *)
ProbeMemory(bytes) ==
    Segment(ProbeBase, bytes \o [i \in 1 .. (16 - Len(bytes)) |-> 255]
                             \o WordBytes(CellWord, 8))

(* 0, u64::MAX (-1), every 2^k, every 2^k - 1, every -2^k, 0x12345678 *)
TestWords ==
    {{}, ToWord(305419896)} \cup {{k} : k \in WordBits}
        \cup {0 .. k : k \in WordBits} \cup {k .. 63 : k \in WordBits}

LebProbe(kind, w, bytes, far, checks) ==
    [ kind |-> kind, checks |-> checks, value |-> w, bytes |-> bytes,
      end |-> IF far THEN U64_MAX ELSE ProbeBase + Len(bytes),
      done |-> FALSE, out |-> <<>> ]

LebProbes ==
    { LebProbe("uleb128", w, uleb128_bytes(w), far, checks) :
        w \in TestWords, far \in BOOLEAN, checks \in BOOLEAN }
    \cup { LebProbe("sleb128", w, sleb128_bytes(w), far, checks) :
        w \in TestWords, far \in BOOLEAN, checks \in BOOLEAN }

UnsignedKinds == {DW_EH_PE_PTR, DW_EH_PE_ULEB128, DW_EH_PE_UDATA2, DW_EH_PE_UDATA4,
                  DW_EH_PE_UDATA8}
SignedKinds == {DW_EH_PE_SLEB128, DW_EH_PE_SDATA2, DW_EH_PE_SDATA4, DW_EH_PE_SDATA8}

(* The width in bits of the field of value encoding k *)
FieldBits(k) == IF k \in {DW_EH_PE_ULEB128, DW_EH_PE_SLEB128} THEN 64 ELSE 8 * FixedSize(k)

(* The values encoded with k: 0, 1, 16, the address of the cell, 0x123 and  *)
(* the largest; for the signed encodings also -1, -0x123 and the smallest.  *)
FieldValues(k) ==
    {{}, {0}, ToWord(16), ToWord(ProbeCell), ToWord(291)}
        \cup (IF k \in UnsignedKinds
              THEN {0 .. (FieldBits(k) - 1)}
              ELSE {0 .. (FieldBits(k) - 2), WordBits, WordNeg(ToWord(291)),
                    (FieldBits(k) - 1) .. 63})

FieldBytes(k, w) ==
    CASE k = DW_EH_PE_ULEB128 -> uleb128_bytes(w)
      [] k = DW_EH_PE_SLEB128 -> sleb128_bytes(w)
      [] OTHER -> WordBytes(w, FixedSize(k))

(* datarel_base: 0, the probe itself, 0x456, 2^63, u64::MAX *)
DatarelBases == {{}, ToWord(ProbeBase), ToWord(1110), {63}, WordBits}

PointerProbe(k, ob, indirect, w, base, checks) ==
    [ kind |-> "pointer", checks |-> checks, value |-> w, bytes |-> FieldBytes(k, w),
      end |-> U64_MAX, enc |-> k + ob + indirect, datarel_base |-> base,
      done |-> FALSE, out |-> <<>> ]

PointerProbes ==
    { PointerProbe(kb[1], DW_EH_PE_DATAREL, ind, kb[2], base, checks) :
        kb \in UNION {{<<k, w>> : w \in FieldValues(k)} : k \in UnsignedKinds \cup SignedKinds},
        ind \in {0, DW_EH_PE_INDIRECT}, base \in DatarelBases, checks \in BOOLEAN }
    \cup
    { PointerProbe(kb[1], ob, ind, kb[2], {}, checks) :
        kb \in UNION {{<<k, w>> : w \in FieldValues(k)} : k \in UnsignedKinds \cup SignedKinds},
        ob \in {DW_EH_PE_ABSPTR, DW_EH_PE_PCREL},
        ind \in {0, DW_EH_PE_INDIRECT}, checks \in BOOLEAN }
    \cup
    \* an encoding without a value format, an encoding without a base
    { PointerProbe(k, ob, 0, {0}, {}, checks) :
        k \in {DW_EH_PE_UDATA8}, ob \in {DW_EH_PE_ABSPTR + 1, 32}, checks \in BOOLEAN }

InitEncoding ==
    /\ platform = "linux_x64"
    /\ build = "slot_intact"
    /\ UnwindAtRest
    /\ proc = NoProcess
    /\ probe \in LebProbes \cup PointerProbes
    /\ mem = ProbeMemory(probe.bytes)
    /\ maps = MapsOf(mem)

Decoded(out) == probe' = [probe EXCEPT !.done = TRUE, !.out = out]

DecodeLeb ==
    /\ probe.kind \in {"uleb128", "sleb128"}
    /\ ~probe.done
    /\ Decoded(IF probe.kind = "uleb128" THEN wide_decode_uleb128(ProbeBase, probe.end)
               ELSE wide_decode_sleb128(ProbeBase, probe.end))
    /\ UNCHANGED << unwind_vars, proc >>

DecodePointer ==
    /\ probe.kind = "pointer"
    /\ ~probe.done
    /\ Decoded(wide_decode_pointer(ProbeBase, probe.end, probe.enc, probe.datarel_base))
    /\ UNCHANGED << unwind_vars, proc >>

NextEncoding == DecodeLeb \/ DecodePointer

SpecEncoding == InitEncoding /\ [][NextEncoding]_vars

LebDecoded == probe.kind \in {"uleb128", "sleb128"} /\ probe.done

(* C14: decode_uleb128 of the ULEB128 encoding of a u64 returns that u64,   *)
(* decode_sleb128 of the SLEB128 encoding of an i64 returns that i64, and   *)
(* the cursor has advanced by exactly the length of the encoding.           *)
C14_LebRoundTrip ==
    LebDecoded =>
        /\ probe.out.st = "Ok"
        /\ probe.out.v.val = probe.value
        /\ probe.out.v.loc = ProbeBase + Len(probe.bytes)

(* i64::MIN was decoded from its ten bytes *)
C14_MinimumDecoded ==
    /\ LebDecoded /\ probe.kind = "sleb128" /\ probe.value = {63}
    /\ Len(probe.bytes) = 10
    /\ probe.out.st = "Ok" /\ probe.out.v.val = {63}

PointerDecoded == probe.kind = "pointer" /\ probe.done
SupportedEncoding ==
    /\ EncValueBits(probe.enc) \in UnsignedKinds \cup SignedKinds
    /\ EncOffsetBits(probe.enc) \in {DW_EH_PE_ABSPTR, DW_EH_PE_PCREL, DW_EH_PE_DATAREL}

(* The base the encoding selects, and (base + value) mod 2^64 *)
PointerBase ==
    CASE EncOffsetBits(probe.enc) = DW_EH_PE_ABSPTR -> {}
      [] EncOffsetBits(probe.enc) = DW_EH_PE_PCREL -> ToWord(ProbeBase)
      [] OTHER -> probe.datarel_base
PointerSum == WordAdd(PointerBase, probe.value).val

PointerReturned(w) ==
    /\ probe.out.st = "Ok"
    /\ probe.out.v.val = w
    /\ probe.out.v.loc = ProbeBase + Len(probe.bytes)

(* C15: for every supported encoding decode_pointer returns                 *)
(* (base + value) mod 2^64, value being the zero- or sign-extended field,   *)
(* base 0, the address of the field or datarel_base (InvalidDataRelBase     *)
(* when that is 0); with INDIRECT it returns the u64 stored there; the      *)
(* cursor has advanced by exactly the width of the field.                   *)
C15_PointerIsBasePlusValue ==
    (PointerDecoded /\ SupportedEncoding) =>
        IF EncOffsetBits(probe.enc) = DW_EH_PE_DATAREL /\ probe.datarel_base = {}
        THEN probe.out.st = "Err" /\ probe.out.v[1] = "InvalidDataRelBase"
        ELSE IF ~EncIndirect(probe.enc) THEN PointerReturned(PointerSum)
        ELSE PointerSum = ToWord(ProbeCell) => PointerReturned(CellWord)

-----------------------------------------------------------------------------
(* dyld::linux: module discovery.  init_sections hands `callback` to        *)
(* dl_iterate_phdr, which calls it once for every loaded object, in order,  *)
(* for as long as it returns 0.                                             *)
(*   proc.trace_shared_libs   whether the feature is compiled in            *)
(*   proc.objects             the dl_phdr_info of the loaded objects        *)
(*   proc.next                the object the next callback is for           *)
(*   proc.data                the SmallVec the callbacks fill               *)

MAX_OBJECTS_LEN == 128
PF_X == 1
MaxObjects == 131        \* loaded objects followed

ProgramHeader(p_type, p_flags, p_vaddr, p_memsz) ==
    [ p_type |-> p_type, p_flags |-> p_flags, p_vaddr |-> p_vaddr,
      p_memsz |-> p_memsz, p_filesz |-> p_memsz ]

(* Program header tables: text (r-x), data (rw-) and unwind info; the same  *)
(* without PT_GNU_EH_FRAME; with no executable segment; with none at all    *)
HeadersComplete ==
    << ProgramHeader("PT_LOAD", 5, 0, 64), ProgramHeader("PT_LOAD", 6, 64, 32),
       ProgramHeader("PT_NOTE", 4, 96, 8), ProgramHeader("PT_GNU_EH_FRAME", 4, 104, 16) >>
HeadersNoUnwind == SubSeq(HeadersComplete, 1, 3)
HeadersNoText == SubSeq(HeadersComplete, 2, 4)

DlPhdrInfo(i, name, phdrs) ==
    [ dlpi_addr |-> 4096 * i, dlpi_name |-> name, dlpi_phdr |-> phdrs,
      dlpi_phnum |-> Len(phdrs) ]

(* The i-th loaded object of a process: "libs" loads complete shared        *)
(* libraries after the executable, "mixed" objects of every kind            *)
LoadedObject(layout, i) ==
    CASE i = 1 -> DlPhdrInfo(i, "", HeadersComplete)
      [] layout = "libs" -> DlPhdrInfo(i, "lib.so", HeadersComplete)
      [] i % 6 = 0 -> DlPhdrInfo(i, "linux-vdso.so.1", HeadersComplete)
      [] i % 6 = 1 -> DlPhdrInfo(i, "lib.so", HeadersNoUnwind)
      [] i % 6 = 2 -> DlPhdrInfo(i, "lib.so", HeadersNoText)
      [] i % 6 = 3 -> DlPhdrInfo(i, "lib.so", <<>>)
      [] i % 6 = 4 -> DlPhdrInfo(i, "not utf-8", HeadersComplete)
      [] OTHER -> DlPhdrInfo(i, "lib.so", HeadersComplete)

SectionInfoDefault ==
    [ base |-> 0, text |-> 0, text_len |-> 0, eh_frame_hdr |-> 0,
      eh_frame_hdr_len |-> 0, max_addr |-> 0 ]

(* The body of `for hdr in hdrs`, acc = [section, found_text, found_unwind] *)
program_header(info, hdr, acc) ==
    CASE hdr.p_type = "PT_LOAD" ->
            [ section |->
                [acc.section EXCEPT
                    !.text = IF hdr.p_flags % (2 * PF_X) >= PF_X
                             THEN info.dlpi_addr + hdr.p_vaddr ELSE @,
                    !.text_len = IF hdr.p_flags % (2 * PF_X) >= PF_X THEN hdr.p_memsz ELSE @,
                    !.max_addr = IF @ < info.dlpi_addr + hdr.p_vaddr + hdr.p_filesz
                                 THEN info.dlpi_addr + hdr.p_vaddr + hdr.p_filesz ELSE @],
              found_text |-> acc.found_text \/ hdr.p_flags % (2 * PF_X) >= PF_X,
              found_unwind |-> acc.found_unwind ]
      [] hdr.p_type = "PT_GNU_EH_FRAME" ->
            [ section |-> [acc.section EXCEPT !.eh_frame_hdr = info.dlpi_addr + hdr.p_vaddr,
                                              !.eh_frame_hdr_len = hdr.p_memsz],
              found_text |-> acc.found_text,
              found_unwind |-> TRUE ]
      [] OTHER -> acc

RECURSIVE program_headers(_, _, _)
program_headers(info, i, acc) ==
    IF i > info.dlpi_phnum THEN acc
    ELSE program_headers(info, i + 1, program_header(info, info.dlpi_phdr[i], acc))

(* The name filter: whether the callback goes on with an object of this name *)
name_accepted(name, trace_shared_libs) ==
    CASE name = "not utf-8" -> FALSE                 \* to_str() is Err
      [] ~trace_shared_libs -> name = ""
      [] OTHER -> name # "linux-vdso.so.1"           \* name.contains("linux-vdso.so")

(* A list that is never full *)
list_is_full_never(data) == FALSE

(* `data.len() >= MAX_OBJECTS_LEN` on the SmallVec behind `data` *)
list_is_full(data) == Len(data) >= MAX_OBJECTS_LEN

(* What is pushed for an object that passed the filters, if anything *)
push_if_found(data, acc) ==
    IF acc.found_text /\ acc.found_unwind THEN Append(data, acc.section) ELSE data

(* callback: the list after the call (the return value is always 0) *)
callback(info, data, trace_shared_libs) ==
    IF list_is_full(data) THEN data
    ELSE IF info.dlpi_phnum = 0 THEN data
    ELSE IF ~name_accepted(info.dlpi_name, trace_shared_libs) THEN data
    ELSE push_if_found(data,
            program_headers(info, 1,
                [ section |-> [SectionInfoDefault EXCEPT !.base = info.dlpi_addr],
                  found_text |-> FALSE, found_unwind |-> FALSE ]))

(* init_sections: an empty SmallVec, dl_iterate_phdr about to start *)
InitDyld ==
    /\ NoUnwind
    /\ probe = NoProbe
    /\ \E layout \in {"libs", "mixed"}, n \in {0, 1, 7, MaxObjects},
          feature \in BOOLEAN :
            proc = [ kind |-> "dyld", trace_shared_libs |-> feature,
                     objects |-> [i \in 1 .. n |-> LoadedObject(layout, i)],
                     next |-> 1, data |-> <<>> ]

(* dl_iterate_phdr calls callback for the next object *)
DlIteratePhdr ==
    /\ proc.next <= Len(proc.objects)
    /\ proc' = [proc EXCEPT
                    !.data = callback(proc.objects[proc.next], @, proc.trace_shared_libs),
                    !.next = @ + 1]
    /\ UNCHANGED << unwind_vars, probe >>

NextDyld == DlIteratePhdr

SpecDyld == InitDyld /\ [][NextDyld]_vars

HasExecutableLoad(info) ==
    \E i \in 1 .. info.dlpi_phnum :
        info.dlpi_phdr[i].p_type = "PT_LOAD" /\ info.dlpi_phdr[i].p_flags % 2 = 1
HasEhFrameHeader(info) ==
    \E i \in 1 .. info.dlpi_phnum : info.dlpi_phdr[i].p_type = "PT_GNU_EH_FRAME"

SectionsBounded ==
    /\ Len(proc.data) <= 128
    /\ \A k \in 1 .. Len(proc.data) :
          \E i \in 1 .. (proc.next - 1) :
              /\ proc.objects[i].dlpi_addr = proc.data[k].base
              /\ HasExecutableLoad(proc.objects[i])
              /\ HasEhFrameHeader(proc.objects[i])

(* C16: however many objects are loaded, the section list holds at most     *)
(* 128 entries, each entry comes from an object that has both an            *)
(* executable PT_LOAD segment and a PT_GNU_EH_FRAME header, and an object   *)
(* met when the list is full adds nothing.                                  *)
C16_SectionListBounded ==
    /\ []SectionsBounded
    /\ [][Len(proc.data) >= 128 => proc'.data = proc.data]_vars

(* The list is full and objects were met after it filled *)
C16_ObjectsAfterFull ==
    Len(proc.data) = 128 /\ proc.next > 130

-----------------------------------------------------------------------------
(* The CFI interpreter on its own: instruction::run on the initial          *)
(* instructions of a CIE and the instructions of an FDE assembled by hand,  *)
(* for a target pc given as an offset into the function.                    *)
(*   probe.name     which program                                           *)
(*   probe.cie, probe.fde   the instruction bytes                           *)
(*   probe.target   pc - fde.pc_start                                       *)
(*   probe.opcode, probe.r   the opcode and register a "register" program   *)
(*                  is about; probe.r is the register a restore names       *)

ProbePcStart == 16 * ProbeBase

(* def_cfa r7, 8; offset r16 at cfa-8; offset r3 at cfa-16 *)
CieInstructions == << 12, 7, 8, 144, 1, 131, 2 >>

CfiProgram(name, fde, target, opcode, r) ==
    [ kind |-> "cfi", name |-> name, cie |-> CieInstructions, fde |-> fde,
      target |-> target, opcode |-> opcode, r |-> r, done |-> FALSE, out |-> <<>> ]

(* Rows at offsets 0, 1 and 4: advance_loc 1; def_cfa_offset 16;            *)
(* offset r6 at cfa-16; advance_loc 3; def_cfa_register r6                  *)
RowPrograms ==
    { CfiProgram("rows", << 65, 14, 16, 134, 2, 67, 13, 6 >>, t, 0, 0) : t \in 0 .. 5 }

(* A rule, advance_loc 1, a restore, advance_loc 1: the restore has been    *)
(* executed for every target from 2 on.                                     *)
RestorePrograms ==
    UNION { { \* offset r3 at cfa-32; restore r3 (the CIE has a rule for r3)
              CfiProgram("restore", << 131, 4, 65, 195, 65, 0 >>, t, DW_CFA_RESTORE, 3),
              \* offset r3 at cfa-32; restore_extended r3
              CfiProgram("restore", << 131, 4, 65, 6, 3, 65, 0 >>, t,
                         DW_CFA_RESTORE_EXTENDED, 3),
              \* offset r6 at cfa-16; restore r6 (the CIE has no rule for r6)
              CfiProgram("restore", << 134, 2, 65, 198, 65, 0 >>, t, DW_CFA_RESTORE, 6),
              \* restore r5, which nothing has touched
              CfiProgram("restore", << 0, 0, 65, 197, 65, 0 >>, t, DW_CFA_RESTORE, 5),
              \* restore r16, which only the CIE has touched
              CfiProgram("restore", << 0, 0, 65, 208, 65, 0 >>, t, DW_CFA_RESTORE, 16) }
            : t \in 1 .. 3 }

(* remember_state / restore_state, a restore being executed for target 2    *)
(* and, where there are two, the second for target 3                        *)
RememberPrograms ==
    UNION { { \* def_cfa_offset 16; remember; advance 1; restore; advance 1
              CfiProgram("remember", << 14, 16, 10, 65, 11, 65, 0 >>, t, 0, 0),
              \* def_cfa_offset 16; remember; def_cfa_offset 24; offset r6 at cfa-16;
              \* advance 1; restore; advance 1
              CfiProgram("remember_changed", << 14, 16, 10, 14, 24, 134, 2, 65, 11, 65, 0 >>,
                         t, 0, 0),
              \* def_cfa_offset 16; remember; def_cfa_offset 24; offset r6 at cfa-16;
              \* remember; def_cfa_offset 32; advance 1; restore; advance 1; restore;
              \* advance 1
              CfiProgram("remember_nested",
                         << 14, 16, 10, 14, 24, 134, 2, 10, 14, 32, 65, 11, 65, 11, 65, 0 >>,
                         t, 0, 0),
              \* restore with nothing remembered
              CfiProgram("restore_empty", << 11, 65, 0 >>, t, 0, 0) }
            : t \in 1 .. 3 }

(* The opcodes that name a register, and the operands that follow it *)
RegisterOpcodes ==
    { DW_CFA_OFFSET_EXTENDED, DW_CFA_RESTORE_EXTENDED, DW_CFA_UNDEFINED, DW_CFA_SAME_VALUE,
      DW_CFA_REGISTER, DW_CFA_DEF_CFA, DW_CFA_DEF_CFA_REGISTER, DW_CFA_EXPRESSION,
      DW_CFA_OFFSET_EXTENDED_SF, DW_CFA_DEF_CFA_SF, DW_CFA_VAL_OFFSET, DW_CFA_VAL_OFFSET_SF,
      DW_CFA_VAL_EXPRESSION, DW_CFA_GNU_NEGATIVE_OFFSET_EXTENDED }

OperandsAfterRegister(opcode) ==
    CASE opcode \in {DW_CFA_RESTORE_EXTENDED, DW_CFA_UNDEFINED, DW_CFA_SAME_VALUE,
                     DW_CFA_DEF_CFA_REGISTER} -> <<>>
      [] opcode \in {DW_CFA_EXPRESSION, DW_CFA_VAL_EXPRESSION} -> << 1, 0 >>
      [] OTHER -> << 1 >>

(* The largest register of the target, the last slot of the rule array,     *)
(* MAX_REGISTER_NUM, and numbers above it                                   *)
RegisterNumbers ==
    {0, UNW_X86_64_RIP, MAX_REGISTER_NUM - 1, MAX_REGISTER_NUM, MAX_REGISTER_NUM + 1, 300}

RegisterPrograms ==
    { CfiProgram("register",
                 << opcode >> \o uleb128_bytes(ToWord(r)) \o OperandsAfterRegister(opcode)
                              \o << 65, 0 >>,
                 1, opcode, r) : opcode \in RegisterOpcodes, r \in RegisterNumbers }
    \cup
    \* DW_CFA_register r3, r: the register named second
    { CfiProgram("register", << DW_CFA_REGISTER, 3 >> \o uleb128_bytes(ToWord(r))
                                \o << 65, 0 >>,
                 1, DW_CFA_REGISTER, r) : r \in RegisterNumbers }
    \cup
    \* the opcodes that carry the register in their low six bits
    { CfiProgram("register", << opcode + r, 1, 65, 0 >>, 1, opcode, r) :
        opcode \in {DW_CFA_OFFSET, DW_CFA_RESTORE}, r \in {0, 63} }

ProbeCie ==
    [ CommonInformationEntryDefault EXCEPT
        !.cie_start = ProbeBase, !.cie_instructions = ProbeBase,
        !.cie_length = Len(probe.cie), !.pointer_encoding = DW_EH_PE_UDATA2,
        !.code_align_factor = 1, !.data_align_factor = 0 - 8,
        !.return_address_register = UNW_X86_64_RIP ]

ProbeFde ==
    [ FrameDescriptionEntryDefault EXCEPT
        !.fde_start = ProbeBase + 64, !.fde_instructions = ProbeBase + 64,
        !.fde_length = Len(probe.fde), !.pc_start = ProbePcStart,
        !.pc_end = ProbePcStart + 16 ]

InitCfi ==
    /\ platform = "linux_x64"
    /\ build \in {"slot_intact", "slot_clobbered"}
    /\ UnwindAtRest
    /\ proc = NoProcess
    /\ probe \in RowPrograms \cup RestorePrograms \cup RememberPrograms \cup RegisterPrograms
    /\ mem = Segment(ProbeBase, probe.cie) @@ Segment(ProbeBase + 64, probe.fde)
    /\ maps = MapsOf(mem)

(* instruction::run for the target pc *)
RunCfi ==
    /\ probe.kind = "cfi"
    /\ ~probe.done
    /\ probe' = [probe EXCEPT !.done = TRUE,
                              !.out = run(ProbePcStart + probe.target, ProbeFde, ProbeCie)]
    /\ UNCHANGED << unwind_vars, proc >>

NextCfi == RunCfi

SpecCfi == InitCfi /\ [][NextCfi]_vars

CfiDone(names) == probe.kind = "cfi" /\ probe.done /\ probe.name \in names

(* What the CFI row that contains the target describes: every instruction   *)
(* of the rows that start at or before the target has been executed         *)
RowAtTarget == run(ProbePcStart + probe.target + 1, ProbeFde, ProbeCie)

(* C17: the PrologInfo that run returns is the register-state description   *)
(* active at the target pc, the rules of the CFI row whose address range    *)
(* contains it, also when the target is the first address of a row.         *)
C17_StateActiveAtTarget ==
    CfiDone({"rows", "restore"}) =>
        /\ probe.out.st = "Ok" /\ RowAtTarget.st = "Ok"
        /\ probe.out.v = RowAtTarget.v

(* The state the CIE's initial instructions leave: the initial state of     *)
(* every register for the FDE                                               *)
CieState ==
    run_(PrologInfoDefault, ProbeCie, ProbeCie.cie_instructions,
         ProbeCie.cie_start + ProbeCie.cie_length, U64_MAX).v

Rule(l) == << l.location, l.value >>

(* C18: DW_CFA_restore and DW_CFA_restore_extended of r set the rule of r   *)
(* back to its initial state, for an FDE the rule the CIE's initial         *)
(* instructions left, whether the FDE changed it or not.                    *)
C18_RestoreToInitialRule ==
    (CfiDone({"restore"}) /\ probe.target >= 2) =>
        /\ probe.out.st = "Ok"
        /\ Rule(probe.out.v.saved_registers[probe.r])
              = Rule(CieState.saved_registers[probe.r])

(* The PrologInfo at the remember_state a restore_state matches: the CFA    *)
(* offset it had and the rule r6 had                                        *)
Remembered(offset, r6) ==
    [CieState EXCEPT !.cfa_register_offset = offset, !.saved_registers[6] = r6]
RememberedOuter == Remembered(16, RegisterLocationDefault)
RememberedInner ==
    Remembered(24, [location |-> "InCFA", initial_state_saved |-> TRUE, value |-> 0 - 16])

(* C19: DW_CFA_restore_state sets the whole PrologInfo to the value it had  *)
(* at the matching DW_CFA_remember_state, last in first out; with nothing   *)
(* remembered it fails with NoRememberState.                                *)
C19_RestoreStateIsLifo ==
    /\ CfiDone({"restore_empty"}) =>
            probe.out.st = "Err" /\ probe.out.v[1] = "NoRememberState"
    /\ (CfiDone({"remember", "remember_changed"}) /\ probe.target >= 2) =>
            probe.out.st = "Ok" /\ probe.out.v = RememberedOuter
    /\ (CfiDone({"remember_nested"}) /\ probe.target = 2) =>
            probe.out.st = "Ok" /\ probe.out.v = RememberedInner
    /\ (CfiDone({"remember_nested"}) /\ probe.target = 3) =>
            probe.out.st = "Ok" /\ probe.out.v = RememberedOuter

(* C20: a CFI opcode that names a register r fails with                     *)
(* InvalidRegisterNumber(r) when r > MAX_REGISTER_NUM, and for every r it   *)
(* accepts the access to saved_registers[r] is within the rule array.       *)
C20_RegisterOperandChecked ==
    CfiDone({"register"}) =>
        IF probe.r > MAX_REGISTER_NUM
        THEN probe.out.st = "Err" /\ probe.out.v = <<"InvalidRegisterNumber", probe.r>>
        ELSE probe.out.st = "Ok"

-----------------------------------------------------------------------------
(* One dwarf::step on its own: the rules of a hand-assembled FDE applied to *)
(* a register snapshot and a stack.                                         *)
(*   probe.name   the kind of rule the FDE sets for register probe.r        *)
(*   probe.arg    the second operand: a register or a factored offset      *)
(*   probe.regs   the old snapshot                                          *)

StackBase == 4 * ProbeBase - 16
StackWords == << 11, 22, 33, 44, 55, 66 >>

RuleProgram(name, fde, r, arg, regs) ==
    [ kind |-> "rule", name |-> name, cie |-> CieInstructions, fde |-> fde, target |-> 1,
      r |-> r, arg |-> arg, regs |-> regs, done |-> FALSE, out |-> <<>> ]

(* The low seven bits of a small signed operand: its one-byte SLEB128 *)
Sleb1(n) == IF n < 0 THEN 128 + n ELSE n

RuleFdes ==
    { [name |-> "register", fde |-> << DW_CFA_REGISTER, r, a, 65, 0 >>, r |-> r, arg |-> a] :
        r \in {3, 6}, a \in {0, 6, 12} }
    \cup
    { [name |-> "val_offset", fde |-> << DW_CFA_VAL_OFFSET, r, a, 65, 0 >>, r |-> r,
       arg |-> a * (0 - 8)] : r \in {3, 6}, a \in {0, 1, 2} }
    \cup
    { [name |-> "val_offset", fde |-> << DW_CFA_VAL_OFFSET_SF, r, Sleb1(a), 65, 0 >>, r |-> r,
       arg |-> a * (0 - 8)] : r \in {3, 6}, a \in {0 - 2, 0 - 1, 1} }
    \cup
    { [name |-> "offset", fde |-> << DW_CFA_OFFSET + 6, a, 65, 0 >>, r |-> 6,
       arg |-> a * (0 - 8)] : a \in {2, 3} }
    \cup
    { [name |-> "undefined", fde |-> << DW_CFA_UNDEFINED, r, 65, 0 >>, r |-> r, arg |-> 0] :
        r \in {3, 6} }

RuleSnapshots ==
    { [X64Registers(ProbePcStart + 1, rsp, rbp, rbx) EXCEPT ![12] = 4 * ProbeBase + 8] :
        rsp \in {4 * ProbeBase, 4 * ProbeBase + 8}, rbp \in {77, 4 * ProbeBase + 16},
        rbx \in {0, 88} }

InitRule ==
    /\ platform = "linux_x64"
    /\ build = "slot_intact"
    /\ UnwindAtRest
    /\ proc = NoProcess
    /\ probe \in { RuleProgram(p.name, p.fde, p.r, p.arg, regs) :
                     p \in RuleFdes, regs \in RuleSnapshots }
    /\ mem = Segment(ProbeBase, probe.cie) @@ Segment(ProbeBase + 64, probe.fde)
                @@ WordSegment(StackBase, StackWords)
    /\ maps = MapsOf(mem)

(* dwarf::step with the FDE and CIE found for the pc *)
StepRule ==
    /\ probe.kind = "rule"
    /\ ~probe.done
    /\ probe' = [probe EXCEPT
                   !.done = TRUE,
                   !.out = dwarf_step(ProbePcStart + probe.target, ProbeFde, ProbeCie,
                                      probe.regs)]
    /\ UNCHANGED << unwind_vars, proc >>

NextRule == StepRule

SpecRule == InitRule /\ [][NextRule]_vars

RuleDone(names) == probe.kind = "rule" /\ probe.done /\ probe.name \in names

(* The CFA of the probed frame: the CIE defines it as r7 + 8 *)
RuleCfa == probe.regs[UNW_X86_64_RSP] + 8

(* C21: for the InRegister rule that DW_CFA_register(r1, r2) creates, the   *)
(* value restored into r1 is the value r2 holds in the old snapshot; the    *)
(* register number r2 is never used as a memory address.                    *)
C21_RegisterRuleIsIndirect ==
    RuleDone({"register"}) =>
        /\ probe.out.st = "Ok"
        /\ probe.out.v.registers[probe.r] = probe.regs[probe.arg]

(* C22: the saved value of an OffsetFromCFA rule (DW_CFA_val_offset,        *)
(* DW_CFA_val_offset_sf) is cfa + value with no memory read; of an InCFA    *)
(* rule it is the u64 stored at cfa + value; of an Undefined rule it is 0.  *)
C22_SavedValueByRule ==
    RuleDone({"val_offset", "offset", "undefined"}) =>
        /\ probe.out.st = "Ok"
        /\ probe.out.v.registers[probe.r] =
              CASE probe.name = "val_offset" -> RuleCfa + probe.arg
                [] probe.name = "offset" -> LittleEndian(RuleCfa + probe.arg, 8)
                [] OTHER -> 0

-----------------------------------------------------------------------------
(* EhFrameHeader::search on its own: an .eh_frame_hdr whose table has       *)
(* probe.n entries sorted by initial location, each naming an FDE of the    *)
(* .eh_frame that follows, and a target pc.                                 *)
(*   probe.width   the bytes of one table field (udata2 or udata4)          *)

MaxTable == 6
TableHdrAt == 2 * ProbeBase
TableFrameAt == 4 * ProbeBase

(* The w little-endian bytes of v, v below 2^24 *)
Bytes(v, w) == [i \in 1 .. w |-> IF i > 3 THEN 0 ELSE (v \div Pow256(i - 1)) % 256]

RECURSIVE Concat(_, _, _)
Concat(F(_), i, n) == IF i >= n THEN <<>> ELSE F(i) \o Concat(F, i + 1, n)

(* Function i starts 16 bytes after function i - 1; its FDE covers the      *)
(* first 8 of them, the rest is a gap.                                      *)
InitialLocation(i) == ProbePcStart + 16 * i
FunctionEnd(i) == InitialLocation(i) + 8

(* CIE 1 of the image: "zR", code_align 1, data_align -8, ra r16, R=udata2 *)
TableCie == << 18, 0, 0, 0, 0, 0, 0, 0, 1, 122, 82, 0, 1, 120, 16, 1, 2, 12, 7, 8, 144, 1 >>

TableFdeAt(i) == TableFrameAt + Len(TableCie) + 14 * i

(* FDE i: length 10, CIE pointer, pc_begin, pc_range, no augmentation data, nop *)
TableFde(i) ==
    << 10, 0, 0, 0 >> \o Bytes(TableFdeAt(i) + 4 - TableFrameAt, 4)
        \o Bytes(InitialLocation(i), 2)
        \o Bytes(FunctionEnd(i) - InitialLocation(i), 2) \o << 0, 0 >>

TableEncoding(w) == IF w = 2 THEN DW_EH_PE_UDATA2 ELSE DW_EH_PE_UDATA4

TableEntry(i, w) == Bytes(InitialLocation(i), w) \o Bytes(TableFdeAt(i), w)

(* version 1, eh_frame_ptr udata2, fde_count udata2, the table *)
TableHdr(n, w) ==
    << 1, DW_EH_PE_UDATA2, DW_EH_PE_UDATA2, TableEncoding(w) >>
        \o Bytes(TableFrameAt, 2) \o Bytes(n, 2)
        \o Concat(LAMBDA i : TableEntry(i, w), 0, n)

TableFrame(n) == TableCie \o Concat(TableFde, 0, n) \o << 0, 0, 0, 0 >>

SearchTargets(n) ==
    {ProbePcStart - 4} \cup { ProbePcStart + 4 * k : k \in 0 .. (4 * n + 1) }

InitSearch ==
    /\ platform = "linux_x64"
    /\ build = "slot_intact"
    /\ UnwindAtRest
    /\ proc = NoProcess
    /\ \E n \in 1 .. MaxTable, w \in {2, 4} : \E target \in SearchTargets(n) :
          /\ probe = [ kind |-> "search", n |-> n, width |-> w, target |-> target,
                       done |-> FALSE, out |-> <<>> ]
          /\ mem = Segment(TableHdrAt, TableHdr(n, w)) @@ Segment(TableFrameAt, TableFrame(n))
    /\ maps = MapsOf(mem)

(* EhFrameHeader::decode(s.eh_frame_hdr, end)?.search(pc) *)
SearchTable ==
    /\ probe.kind = "search"
    /\ ~probe.done
    /\ probe' = [probe EXCEPT
                   !.done = TRUE,
                   !.out = Bind(EhFrameHeader_decode(
                                    TableHdrAt,
                                    TableHdrAt + Len(TableHdr(probe.n, probe.width))),
                                LAMBDA header : EhFrameHeader_search(header, probe.target))]
    /\ UNCHANGED << unwind_vars, proc >>

NextSearch == SearchTable

SpecSearch == InitSearch /\ [][NextSearch]_vars

SearchDone == probe.kind = "search" /\ probe.done

(* The entry with the largest initial location <= pc, entry 0 when none is *)
SelectedEntry ==
    LET below == { i \in 0 .. (probe.n - 1) : InitialLocation(i) <= probe.target }
    IN  IF below = {} THEN 0 ELSE CHOOSE i \in below : \A j \in below : j <= i

(* C23: for a table of fde_count >= 1 entries sorted by initial location,   *)
(* EhFrameHeader::search selects the entry with the largest initial         *)
(* location <= pc (entry 0 when there is none), reads only entries of the   *)
(* table, and returns that entry's FDE when pc_start <= pc < pc_end and     *)
(* FDENotFound otherwise.                                                   *)
C23_SearchSelectsLowerBound ==
    SearchDone =>
        IF /\ InitialLocation(SelectedEntry) <= probe.target
           /\ probe.target < FunctionEnd(SelectedEntry)
        THEN /\ probe.out.st = "Ok"
             /\ probe.out.v.fde.fde_start = TableFdeAt(SelectedEntry)
             /\ probe.out.v.fde.pc_start = InitialLocation(SelectedEntry)
        ELSE IsFDENotFound(probe.out)

C23_FoundInTheMiddle ==
    /\ SearchDone /\ probe.n = 5 /\ probe.width = 4
    /\ probe.target = InitialLocation(2) + 4
    /\ probe.out.st = "Ok" /\ probe.out.v.fde.pc_start = InitialLocation(2)

-----------------------------------------------------------------------------
(* The full scan on its own: cfi::scan as search_fde calls it, on an        *)
(* .eh_frame made of a CIE and probe.nfde FDEs.                             *)
(*   probe.long_cie    the CIE has the 0xffffffff escape and an 8-byte      *)
(*                     length                                               *)
(*   probe.long_fde    FDE 1 has it                                         *)
(*   probe.second_cie  a second CIE follows FDE 0                           *)
(*   probe.ending      what follows the last FDE of the module:             *)
(*      "zero"      a zero terminator, the end of the module's mapping      *)
(*      "unmapped"  the end of the module's mapping                         *)
(*      "stray"     the end of the module (max_addr), then readable memory  *)
(*                  that holds one more FDE and a zero terminator           *)
(*      "zero_then_stray"  a zero terminator, then the same                 *)

MaxRecords == 3
ScanFrameAt == 4 * ProbeBase

Escaped(long, length) ==
    IF long THEN << 255, 255, 255, 255 >> \o Bytes(length, 8) ELSE Bytes(length, 4)

ScanCie(long) == Escaped(long, 18) \o SubSeq(TableCie, 5, Len(TableCie))

IsLongFde(p, i) == p.long_fde /\ i = 1

ScanFdeSize(p, i) == IF IsLongFde(p, i) THEN 22 ELSE 14

RECURSIVE ScanFdeAt(_, _)
ScanFdeAt(p, i) ==
    IF i = 0 THEN ScanFrameAt + Len(ScanCie(p.long_cie))
    ELSE ScanFdeAt(p, i - 1) + ScanFdeSize(p, i - 1)
            + (IF p.second_cie /\ i = 1 THEN Len(ScanCie(FALSE)) ELSE 0)

(* FDE i of the first CIE: pc_begin, pc_range, no augmentation data, nop *)
ScanFde(p, i) ==
    Escaped(IsLongFde(p, i), 10)
        \o Bytes(ScanFdeAt(p, i) + (IF IsLongFde(p, i) THEN 12 ELSE 4) - ScanFrameAt, 4)
        \o Bytes(InitialLocation(i), 2)
        \o Bytes(FunctionEnd(i) - InitialLocation(i), 2) \o << 0, 0 >>

ScanRecord(p, i) ==
    ScanFde(p, i) \o (IF p.second_cie /\ i = 0 THEN ScanCie(FALSE) ELSE <<>>)

(* The bytes up to the end of the module, and the readable bytes after it *)
ScanModule(p) ==
    ScanCie(p.long_cie) \o Concat(LAMBDA i : ScanRecord(p, i), 0, p.nfde)
        \o (IF p.ending \in {"zero", "zero_then_stray"} THEN << 0, 0, 0, 0 >> ELSE <<>>)

ScanBeyond(p) ==
    IF p.ending \in {"stray", "zero_then_stray"}
    THEN ScanFde(p, p.nfde) \o << 0, 0, 0, 0 >>
    ELSE <<>>

(* max_addr of the module: the end of its last PT_LOAD segment *)
ScanMaxAddr(p) == ScanFrameAt + Len(ScanModule(p))

ScanProbes ==
    { [ kind |-> "scan", nfde |-> n, long_cie |-> lc, long_fde |-> lf, second_cie |-> sc,
        ending |-> e, target |-> t, done |-> FALSE, out |-> <<>> ] :
        n \in 1 .. MaxRecords, lc \in BOOLEAN, lf \in BOOLEAN, sc \in BOOLEAN,
        e \in {"zero", "unmapped", "stray", "zero_then_stray"},
        t \in {ProbePcStart - 4} \cup { InitialLocation(i) + d : i \in 0 .. MaxRecords,
                                                                    d \in {4, 12} } }

InitScan ==
    /\ platform = "linux_x64"
    /\ build = "slot_intact"
    /\ UnwindAtRest
    /\ proc = NoProcess
    /\ probe \in { p \in ScanProbes : p.target < InitialLocation(p.nfde + 1) }
    /\ mem = Segment(ScanFrameAt, ScanModule(probe) \o ScanBeyond(probe))
    /\ maps = MapsOf(mem)

(* `cfi::scan(header.eh_frame, u64::MAX, pc)` *)
ScanFrame ==
    /\ probe.kind = "scan"
    /\ ~probe.done
    /\ probe' = [probe EXCEPT !.done = TRUE,
                              !.out = scan(ScanFrameAt, U64_MAX, probe.target)]
    /\ UNCHANGED << unwind_vars, proc >>

NextScan == ScanFrame

SpecScan == InitScan /\ [][NextScan]_vars

ScanDone == probe.kind = "scan" /\ probe.done

(* The FDEs of the module that contain the target *)
ScanContaining ==
    { i \in 0 .. (probe.nfde - 1) :
        InitialLocation(i) <= probe.target /\ probe.target < FunctionEnd(i) }

(* C24: the full scan visits the records of .eh_frame once each in address  *)
(* order, advancing by the full size of each record (0xffffffff selecting   *)
(* the 8-byte length), skips CIEs, returns the first FDE that contains pc,  *)
(* and stops with FDENotFound at a zero length field or at the upper bound  *)
(* given by the module's max_addr, whichever comes first; it never returns  *)
(* a record from beyond that bound.                                         *)
C24_ScanBoundedByModule ==
    ScanDone =>
        IF ScanContaining # {}
        THEN /\ probe.out.st = "Ok"
             /\ \E i \in ScanContaining :
                    /\ \A j \in ScanContaining : i <= j
                    /\ probe.out.v.fde.fde_start = ScanFdeAt(probe, i)
                    /\ probe.out.v.fde.pc_start = InitialLocation(i)
        ELSE IsFDENotFound(probe.out)

-----------------------------------------------------------------------------
(* The expression VM on its own.                                            *)
(*   kind "expr": expression::evaluate on a whole expression, the length    *)
(*                byte and probe.body, with probe.initial on the stack      *)
(*   kind "op":   one iteration of its loop on probe.stack, for the stack   *)
(*                opcode probe.opcode with operand byte probe.n             *)

ExprRegisters == X64Registers(ProbePcStart, 4 * ProbeBase, 4 * ProbeBase + 32, 3)

(* An expression without skip/bra, what its operations compute from the     *)
(* initial stack entry s, and how many operations it has                    *)
Expression(body, value(_), ops) ==
    { [ kind |-> "expr", body |-> body, initial |-> s, expect |-> value(s), ops |-> ops,
        pc |-> "start", vm |-> <<>>, iterations |-> 0, done |-> FALSE, out |-> <<>> ] :
        s \in {0, 1000} }

ValidExpressions ==
    Expression(<<>>, LAMBDA s : s, 0)
    \cup Expression(<< DW_OP_LIT0 + 5 >>, LAMBDA s : 5, 1)
    \cup Expression(<< DW_OP_CONST1U, 7 >>, LAMBDA s : 7, 1)
    \cup Expression(<< DW_OP_CONST2U, 7, 1 >>, LAMBDA s : 263, 1)
    \cup Expression(<< DW_OP_LIT0 + 1, DW_OP_LIT0 + 2, DW_OP_PLUS >>, LAMBDA s : 3, 3)
    \cup Expression(<< DW_OP_PLUS_UCONST, 8 >>, LAMBDA s : s + 8, 1)
    \cup Expression(<< DW_OP_BREG0 + 7, 8 >>, LAMBDA s : 4 * ProbeBase + 8, 1)
    \cup Expression(<< DW_OP_REG0 + 3 >>, LAMBDA s : 3, 1)
    \cup Expression(<< DW_OP_DUP, DW_OP_PLUS >>, LAMBDA s : s + s, 2)
    \cup Expression(<< DW_OP_LIT0 + 4, DW_OP_SWAP, DW_OP_DROP >>, LAMBDA s : 4, 3)
    \cup Expression(<< DW_OP_NEG, DW_OP_NEG >>, LAMBDA s : s, 2)

(* Opcodes the VM does not implement, and DW_OP_deref_size with a size that *)
(* is not 1, 2, 4 or 8; probe.expect is the error the VM owes.              *)
DW_OP_FBREG == 145
DW_OP_NOP == 150

InvalidExpressions ==
    UNION { Expression(<< op >>, LAMBDA s : <<"InvalidExpression", op>>, 1) :
              op \in {1, DW_OP_FBREG, DW_OP_NOP, 255} }
    \cup UNION { Expression(<< DW_OP_BREG0 + 7, 8, DW_OP_DEREF_SIZE, n >>,
                            LAMBDA s : <<"InvalidExpressionDerefSize", n>>, 2) :
                   n \in {0, 3, 16} }

StackOpcodes == {DW_OP_DUP, DW_OP_DROP, DW_OP_OVER, DW_OP_PICK, DW_OP_SWAP, DW_OP_ROT}

StackProbes ==
    { [ kind |-> "op", opcode |-> op, n |-> n, stack |-> << a, b, c, d >>,
        done |-> FALSE, out |-> <<>> ] :
        op \in StackOpcodes, n \in 0 .. 3, a \in {1}, b \in {1, 2}, c \in {2, 3}, d \in {3, 4} }

ExprBytes ==
    IF probe.kind = "expr" THEN << Len(probe.body) >> \o probe.body \o << 0 >>
    ELSE << probe.opcode, probe.n >>

InitExpr ==
    /\ platform = "linux_x64"
    /\ build = "slot_intact"
    /\ UnwindAtRest
    /\ proc = NoProcess
    /\ probe \in ValidExpressions \cup InvalidExpressions
                    \cup { p \in StackProbes : p.opcode = DW_OP_PICK \/ p.n = 0 }
    /\ mem = Segment(ProbeBase, ExprBytes) @@ WordSegment(StackBase, StackWords)
    /\ maps = MapsOf(mem)

(* The first lines of evaluate: the length, `end`, the initial stack *)
evaluate_start(expression, initial_stack) ==
    Bind(decode_uleb128(expression, expression + 20), LAMBDA length :
         Ok([loc |-> length.loc, end |-> expression + length.val,
             stack |-> <<initial_stack>>]))

Finished(r) == [probe EXCEPT !.pc = "done", !.done = TRUE, !.out = r]

(* expression::evaluate(expression, registers, initial_stack) is entered *)
EvaluateBegin ==
    /\ probe.kind = "expr" /\ probe.pc = "start"
    /\ LET r == evaluate_start(ProbeBase, probe.initial)
       IN  probe' = IF r.st = "Ok" THEN [probe EXCEPT !.pc = "loop", !.vm = r.v]
                    ELSE Finished(r)
    /\ UNCHANGED << unwind_vars, proc >>

(* One iteration of `while loc < end`; a loop that has run EvaluateFuel     *)
(* times, or that changes nothing, is not followed further.                 *)
EvaluateIterate ==
    /\ probe.kind = "expr" /\ probe.pc = "loop"
    /\ probe.vm.loc < probe.vm.end
    /\ LET r == evaluate_op(probe.vm.loc, probe.vm.end, probe.vm.stack, ExprRegisters)
       IN  probe' =
             IF r.st # "Ok" THEN Finished(r)
             ELSE IF probe.iterations >= EvaluateFuel
                     \/ (r.v.loc = probe.vm.loc /\ r.v.stack = probe.vm.stack)
             THEN Finished(Hang("evaluate"))
             ELSE [probe EXCEPT !.iterations = @ + 1,
                                !.vm = [@ EXCEPT !.loc = r.v.loc, !.stack = r.v.stack]]
    /\ UNCHANGED << unwind_vars, proc >>

(* `stack.top(0)` after the loop *)
EvaluateReturn ==
    /\ probe.kind = "expr" /\ probe.pc = "loop"
    /\ ~(probe.vm.loc < probe.vm.end)
    /\ probe' = Finished(EvaluateStack_top(probe.vm.stack, 0))
    /\ UNCHANGED << unwind_vars, proc >>

(* The body of `while loc < end` in evaluate, once *)
EvaluateOp ==
    /\ probe.kind = "op"
    /\ ~probe.done
    /\ probe' = [probe EXCEPT
                   !.done = TRUE,
                   !.out = evaluate_op(ProbeBase, ProbeBase + 2, probe.stack, ExprRegisters)]
    /\ UNCHANGED << unwind_vars, proc >>

NextExpr == EvaluateBegin \/ EvaluateIterate \/ EvaluateReturn \/ EvaluateOp

SpecExpr == InitExpr /\ [][NextExpr]_vars

ExprOf(set) ==
    /\ probe.kind = "expr"
    /\ \E p \in set : p.body = probe.body /\ p.initial = probe.initial

ExprDone(set) == ExprOf(set) /\ probe.done

(* C25: the VM consumes each operation exactly once, its cursor moving past *)
(* the opcode byte and the opcode's operands, so every expression without   *)
(* skip/bra terminates after as many iterations as it has operations and    *)
(* returns the value then on top of the stack.                              *)
C25_ExpressionConsumedOnce ==
    /\ ExprOf(ValidExpressions) => probe.iterations <= probe.ops
    /\ ExprDone(ValidExpressions) =>
          /\ probe.out.st = "Ok" /\ probe.out.v = probe.expect
          /\ probe.iterations = probe.ops

(* What DWARF defines for the stack opcodes, the top being the last entry *)
StackAfter ==
    LET s == probe.stack
        top == Len(s)
    IN  CASE probe.opcode = DW_OP_DUP -> Append(s, s[top])
          [] probe.opcode = DW_OP_DROP -> SubSeq(s, 1, top - 1)
          [] probe.opcode = DW_OP_OVER -> Append(s, s[top - 1])
          [] probe.opcode = DW_OP_PICK -> Append(s, s[top - probe.n])
          [] probe.opcode = DW_OP_SWAP -> [s EXCEPT ![top] = s[top - 1], ![top - 1] = s[top]]
          [] OTHER -> [s EXCEPT ![top] = s[top - 1], ![top - 1] = s[top - 2],
                                ![top - 2] = s[top]]

OpDone == probe.kind = "op" /\ probe.done

(* C26: each stack opcode acts on the evaluation stack as DWARF defines it: *)
(* dup pushes a copy of the top entry, drop removes it, over pushes a copy  *)
(* of the second entry, pick n a copy of the n-th entry from the top, swap  *)
(* exchanges the top two entries, rot rotates the top three.                *)
C26_StackOpcodes ==
    OpDone => probe.out.st = "Ok" /\ probe.out.v.stack = StackAfter

(* C27: an unimplemented or invalid opcode makes evaluation fail with       *)
(* InvalidExpression(op), a DW_OP_deref_size operand other than 1, 2, 4, 8  *)
(* with InvalidExpressionDerefSize(n): an error value, not a panic.         *)
C27_InvalidExpressionIsErr ==
    ExprDone(InvalidExpressions) => probe.out.st = "Err" /\ probe.out.v = probe.expect

-----------------------------------------------------------------------------
(* The LEB128 decoders on encodings that end early or run too long          *)
(* (dwarf/encoding.rs)                                                      *)
(*                                                                          *)
(*   probe.kind     "uleb128" | "sleb128"                                   *)
(*   probe.bytes    the bytes at ProbeBase, the last one a terminating byte *)
(*   probe.fits     whether the value they encode fits in 64 bits           *)
(*   probe.cut      `end` is ProbeBase + cut; -1 puts it below the cursor,  *)
(*                  as after a fixed-size field that ran over the end of    *)
(*                  its record (cfi.rs, FrameDescriptionEntry decoding)     *)
(*   probe.fenced   whether the memory from `end` on is unmapped, so that   *)
(*                  a read at or beyond `end` shows in the result           *)

(* n bytes 0x80 | payload, then the terminating byte last *)
Continued(n, payload, stop) == [i \in 1 .. n |-> 128 + payload] \o << stop >>

(* Encodings whose value fits in 64 bits, unsigned and signed *)
FittingWords == {{}, {0}, {6}, {7}, ToWord(305419896), {63}, 0 .. 62, WordBits}

(* 2^64 in ten bytes, 2^70 in eleven, 2^63 * 0x7e + ... in ten, and twelve  *)
(* bytes of ones                                                            *)
OverlongEncodings ==
    { Continued(9, 0, 2), Continued(10, 0, 1), Continued(9, 127, 126),
      Continued(11, 127, 1) }

CutProbe(kind, bytes, fits, cut, fenced, checks) ==
    [ kind |-> kind, checks |-> checks, bytes |-> bytes, fits |-> fits, cut |-> cut,
      fenced |-> fenced, end |-> ProbeBase + cut, done |-> FALSE, out |-> <<>> ]

CutProbes ==
    { CutProbe(kb[1], kb[2], kb[3], cut, fenced, checks) :
        kb \in { <<"uleb128", uleb128_bytes(w), TRUE>> : w \in FittingWords }
               \cup { <<"sleb128", sleb128_bytes(w), TRUE>> : w \in FittingWords }
               \cup { <<k, b, FALSE>> : k \in {"uleb128", "sleb128"}, b \in OverlongEncodings },
        cut \in -1 .. 12, fenced \in BOOLEAN, checks \in BOOLEAN }

InitLeb ==
    /\ platform = "linux_x64"
    /\ build = "slot_intact"
    /\ UnwindAtRest
    /\ proc = NoProcess
    /\ probe \in { p \in CutProbes : p.cut <= Len(p.bytes) }
    /\ mem = Segment(ProbeBase, IF ~probe.fenced THEN probe.bytes
                                ELSE IF probe.cut < 0 THEN <<>>
                                ELSE SubSeq(probe.bytes, 1, probe.cut))
    /\ maps = IF probe.fenced THEN MapsOf(mem)
              ELSE {[start |-> ProbeBase, end |-> ProbeBase + 16]}

DecodeUleb128 ==
    /\ probe.kind = "uleb128"
    /\ ~probe.done
    /\ Decoded(wide_decode_uleb128(ProbeBase, probe.end))
    /\ UNCHANGED << unwind_vars, proc >>

DecodeSleb128 ==
    /\ probe.kind = "sleb128"
    /\ ~probe.done
    /\ Decoded(wide_decode_sleb128(ProbeBase, probe.end))
    /\ UNCHANGED << unwind_vars, proc >>

NextLeb == DecodeUleb128 \/ DecodeSleb128

SpecLeb == InitLeb /\ [][NextLeb]_vars

CutDone(kinds) == probe.kind \in kinds /\ probe.done /\ "cut" \in DOMAIN probe

Truncated == IF probe.kind = "uleb128" THEN "TruncatedUleb128Expression"
             ELSE "TruncatedSleb128Expression"
Malformed == IF probe.kind = "uleb128" THEN "MalformedUleb128Expression"
             ELSE "MalformedSleb128Expression"

(* The decoder returned an error of one of the kinds named *)
FailedWith(names) == probe.out.st = "Err" /\ probe.out.v[1] \in names

(* No byte at or beyond `end` was read: with the memory from `end` on       *)
(* unmapped, the decoder neither faults nor reports an unreadable address   *)
NothingReadBeyondEnd ==
    probe.fenced => /\ probe.out.st # "Fault"
                    /\ ~FailedWith({"UnreadableAddress"})

(* The terminating byte lies before `end` *)
TerminatedBeforeEnd == probe.cut = Len(probe.bytes)

(* C28: decode_uleb128 and decode_sleb128 never read a byte at or beyond    *)
(* `end`: when the terminating byte is not found before `end` they fail     *)
(* with the Truncated error, and an encoding whose value does not fit in    *)
(* 64 bits fails with the Malformed error instead of losing bits silently.  *)
C28_LebBoundedAndChecked ==
    CutDone({"uleb128", "sleb128"}) =>
        /\ NothingReadBeyondEnd
        /\ ~TerminatedBeforeEnd =>
              FailedWith(IF probe.fits THEN {Truncated} ELSE {Truncated, Malformed})
        /\ TerminatedBeforeEnd /\ ~probe.fits => FailedWith({Malformed})
        /\ TerminatedBeforeEnd /\ probe.fits => probe.out.st = "Ok"

-----------------------------------------------------------------------------
(* compact unwind: the frameless modes (macos/x64/compact.rs,               *)
(* compact/aarch64.rs)                                                      *)

UNWIND_X86_64_MODE_STACK_IMMD == 33554432
UNWIND_X86_64_MODE_STACK_IND == 50331648
UNWIND_ARM64_MODE_FRAMELESS == 33554432
UNWIND_ARM64_FRAME_X19_X20_PAIR == 1
UNWIND_ARM64_FRAME_X21_X22_PAIR == 2
UNWIND_ARM64_FRAME_X23_X24_PAIR == 4
UNWIND_ARM64_FRAME_X25_X26_PAIR == 8
UNWIND_ARM64_FRAME_X27_X28_PAIR == 16
UNWIND_ARM64_FRAME_D8_D9_PAIR == 256
UNWIND_ARM64_FRAME_D10_D11_PAIR == 512
UNWIND_ARM64_FRAME_D12_D13_PAIR == 1024
UNWIND_ARM64_FRAME_D14_D15_PAIR == 2048

(* `encoding & bit != 0`, bit a power of two *)
EncodingHas(encoding, bit) == (encoding \div bit) % 2 = 1

(* `(encoding >> shift) & mask`, shift given as 2^shift and mask as 2^n - 1 *)
EncodingField(encoding, shifted, mask) == (encoding \div shifted) % (mask + 1)

(* The divisors of the `match reg_count` arms of step_frameless *)
PermutationRadix(reg_count) ==
    CASE reg_count \in {5, 6} -> << 120, 24, 6, 2, 1 >>
      [] reg_count = 4 -> << 60, 12, 3, 1 >>
      [] reg_count = 3 -> << 20, 4, 1 >>
      [] reg_count = 2 -> << 5, 1 >>
      [] reg_count = 1 -> << 1 >>
      [] OTHER -> << >>

(* "decompress permutation": regs[0 ..], the entries left out stay 0 *)
RECURSIVE decompress_permutation(_, _)
decompress_permutation(permutation, radix) ==
    IF radix = << >> THEN << >>
    ELSE << permutation \div Head(radix) >>
         \o decompress_permutation(permutation - (permutation \div Head(radix)) * Head(radix),
                                   Tail(radix))

(* regs as the array [0u32; 6] *)
PermutationRegs(reg_count, permutation) ==
    LET d == decompress_permutation(permutation, PermutationRadix(reg_count))
    IN  [n \in 1 .. 6 |-> IF n <= Len(d) THEN d[n] ELSE 0]

(* The inner `for u in 1..7`: the reg-th u not yet used, 0 if there is none *)
unused_register(used, reg) ==
    LET free == {u \in 1 .. 6 : u \notin used /\ Cardinality({v \in 1 .. u - 1 : v \notin used}) = reg}
    IN  IF free = {} THEN 0 ELSE CHOOSE u \in free : TRUE

(* "re-number registers back to standard numbers": register_saved[0 .. n-1] *)
RECURSIVE renumber_registers(_, _, _, _)
renumber_registers(regs, n, reg_count, used) ==
    IF n > reg_count THEN << >>
    ELSE << unused_register(used, regs[n]) >>
         \o renumber_registers(regs, n + 1, reg_count, used \cup {unused_register(used, regs[n])})

(* The gimli register a `match register_saved[n]` arm assigns *)
x64_saved_register(u) ==
    CASE u = 1 -> Ok(3)                  \* UNWIND_X86_64_REG_RBX => X86_64::RBX
      [] u \in 2 .. 5 -> Ok(u + 10)      \* ..REG_R12 .. ..REG_R15 => X86_64::R12 .. R15
      [] u = 6 -> Ok(UNW_X86_64_RBP)
      [] OTHER -> Abort("unreachable!() in step_frameless")

(* "restore registers": the loop over register_saved, from slot n on *)
RECURSIVE x64_restore_saved(_, _, _, _)
x64_restore_saved(bank, register_saved, n, saved_registers) ==
    IF n > Len(register_saved) THEN Ok([registers |-> bank, loc |-> saved_registers])
    ELSE Bind(x64_saved_register(register_saved[n]), LAMBDA slot :
         Bind(load(saved_registers, 8), LAMBDA v :
              x64_restore_saved([bank EXCEPT ![slot] = v], register_saved, n + 1,
                                saved_registers + 8)))

(* "calculate stack size" *)
x64_stack_size(info, imm) ==
    IF imm THEN Ok(EncodingField(info.encoding, 65536, 255) * 8)
    ELSE Bind(load(info.start + EncodingField(info.encoding, 65536, 255), 4), LAMBDA subl :
              Ok(subl + 8 * EncodingField(info.encoding, 8192, 7)))

(* "frameless unwind": RA and RSP are both loaded from the stack *)
x64_frameless_unwind(bank, saved_registers) ==
    Bind(load(saved_registers, 8), LAMBDA ra :
    Bind(load(saved_registers + 8, 8), LAMBDA sp :
         Ok([bank EXCEPT ![UNW_X86_64_RIP] = ra, ![UNW_X86_64_RSP] = sp])))

(* macos/x64/compact.rs step_frameless *)
x64_step_frameless(bank, info, imm) ==
    LET reg_count == EncodingField(info.encoding, 1024, 7)
        regs == PermutationRegs(reg_count, EncodingField(info.encoding, 1, 1023))
    IN  IF reg_count > 6 THEN Abort("index out of bounds in step_frameless")
        ELSE Bind(x64_stack_size(info, imm), LAMBDA stack_size :
             Bind(x64_restore_saved(bank, renumber_registers(regs, 1, reg_count, {}), 1,
                                    bank[UNW_X86_64_RSP] + stack_size - 8 - 8 * reg_count),
                  LAMBDA r : x64_frameless_unwind(r.registers, r.loc)))

(* One `if encoding & ..X.._PAIR != 0` block of restore_registers;          *)
(* acc = [registers, loc]                                                   *)
restore_pair(acc, encoding, pair, first) ==
    IF ~EncodingHas(encoding, pair) THEN Ok(acc)
    ELSE Bind(load(acc.loc, 8), LAMBDA a :
         Bind(load(acc.loc - 8, 8), LAMBDA b :
              Ok([registers |-> [acc.registers EXCEPT ![first] = a, ![first + 1] = b],
                  loc |-> acc.loc - 16])))

(* One `if encoding & ..D.._PAIR != 0` block: set_float_register(n, ..) is  *)
(* called with n = 8 .. 15 and asserts n >= UNW_ARM64_D0                    *)
restore_float_pair(acc, encoding, pair, first) ==
    IF ~EncodingHas(encoding, pair) THEN Ok(acc)
    ELSE Bind(load(acc.loc, 8), LAMBDA a :
              IF valid_float_register(first)
              THEN Bind(load(acc.loc - 8, 8), LAMBDA b :
                        Ok([registers |-> acc.registers, loc |-> acc.loc - 16]))
              ELSE Abort("assertion failed: self.valid_float_register(n)"))

(* compact/aarch64.rs restore_registers *)
compact_restore_registers(bank, encoding, loc) ==
    Bind(restore_pair([registers |-> bank, loc |-> loc], encoding,
                      UNWIND_ARM64_FRAME_X19_X20_PAIR, 19), LAMBDA a :
    Bind(restore_pair(a, encoding, UNWIND_ARM64_FRAME_X21_X22_PAIR, 21), LAMBDA b :
    Bind(restore_pair(b, encoding, UNWIND_ARM64_FRAME_X23_X24_PAIR, 23), LAMBDA c :
    Bind(restore_pair(c, encoding, UNWIND_ARM64_FRAME_X25_X26_PAIR, 25), LAMBDA d :
    Bind(restore_pair(d, encoding, UNWIND_ARM64_FRAME_X27_X28_PAIR, 27), LAMBDA e :
    Bind(restore_float_pair(e, encoding, UNWIND_ARM64_FRAME_D8_D9_PAIR, 8), LAMBDA f :
    Bind(restore_float_pair(f, encoding, UNWIND_ARM64_FRAME_D10_D11_PAIR, 10), LAMBDA g :
    Bind(restore_float_pair(g, encoding, UNWIND_ARM64_FRAME_D12_D13_PAIR, 12), LAMBDA h :
         restore_float_pair(h, encoding, UNWIND_ARM64_FRAME_D14_D15_PAIR, 14)))))))))

(* compact/aarch64.rs step_frameless *)
arm64_step_frameless(bank, encoding) ==
    Bind(compact_restore_registers(bank, encoding,
                                   bank[UNW_ARM64_SP]
                                       + 16 * EncodingField(encoding, 4096, 4095)),
         LAMBDA r : Ok([r.registers EXCEPT ![UNW_ARM64_SP] = r.loc,
                                           ![UNW_ARM64_PC] = r.registers[UNW_ARM64_LR]]))

(* The harness: a function at ProbePcStart whose prolog holds the immediate *)
(* of `subl $xxx, %esp` at offset 4, and a stack of 32 words around the     *)
(* stack pointer 4 * ProbeBase, word i holding 100 + i                      *)
(*                                                                          *)
(*   probe.arch        "x86_64" | "aarch64"                                 *)
(*   probe.imm         STACK_IMMD (TRUE) or STACK_IND                       *)
(*   probe.stack_size  the stack size the encoding stands for               *)
(*   probe.encoding    the compact unwind encoding                          *)
(*   probe.registers   the registers before the step                        *)

FramelessSp == 4 * ProbeBase
FramelessStack == WordSegment(FramelessSp - 128, [i \in 1 .. 32 |-> 100 + i])
FramelessLr == ProbePcStart + 64

(* Below this, a permutation of reg_count registers is a Lehmer code *)
PermutationLimit(reg_count) ==
    CASE reg_count = 0 -> 1 [] reg_count = 1 -> 6 [] reg_count = 2 -> 30
      [] reg_count = 3 -> 120 [] reg_count = 4 -> 360 [] OTHER -> 720

X64FramelessProbes ==
    { [ kind |-> "frameless", arch |-> "x86_64", imm |-> imm, stack_size |-> 8 * words,
        adjust |-> adjust,
        encoding |-> (IF imm THEN UNWIND_X86_64_MODE_STACK_IMMD + 65536 * words
                      ELSE UNWIND_X86_64_MODE_STACK_IND + 65536 * 4 + 8192 * adjust)
                     + 1024 * reg_count + permutation,
        registers |-> X64Registers(ProbePcStart + 8, FramelessSp, FramelessSp + 256, 3),
        done |-> FALSE, out |-> << >> ] :
        imm \in BOOLEAN, words \in {1, 2, 4, 7}, adjust \in {0, 1},
        reg_count \in 0 .. 6, permutation \in {0, 1, 5, 29, 119, 359, 719} }

Arm64FramelessProbes ==
    { [ kind |-> "frameless", arch |-> "aarch64", imm |-> TRUE, stack_size |-> 16 * units,
        adjust |-> 0,
        encoding |-> UNWIND_ARM64_MODE_FRAMELESS + 4096 * units + x + d,
        registers |-> [Arm64Registers(ProbePcStart + 8, FramelessSp + 256)
                          EXCEPT ![UNW_ARM64_SP] = FramelessSp, ![UNW_ARM64_LR] = FramelessLr],
        done |-> FALSE, out |-> << >> ] :
        units \in {0, 1, 3, 6}, x \in {0, 1, 3, 16, 31}, d \in {0, 256, 2048, 3840} }

FramelessProbes ==
    { p \in X64FramelessProbes :
        /\ p.imm => p.adjust = 0
        /\ p.stack_size >= 8 + 8 * EncodingField(p.encoding, 1024, 7)
        /\ p.stack_size > 8 * p.adjust
        /\ EncodingField(p.encoding, 1, 1023)
               < PermutationLimit(EncodingField(p.encoding, 1024, 7)) }
    \cup Arm64FramelessProbes

InitFrameless ==
    /\ UnwindAtRest
    /\ build = "slot_intact"
    /\ proc = NoProcess
    /\ probe \in FramelessProbes
    /\ platform = IF probe.arch = "aarch64" THEN "macos_aarch64" ELSE "linux_x64"
    /\ mem = FramelessStack @@ Segment(ProbePcStart,
                 << 72, 129, 236, 0 >> \o Bytes(probe.stack_size - 8 * probe.adjust, 4))
    /\ maps = MapsOf(mem)

FunctionInfo == [start |-> ProbePcStart, end |-> ProbePcStart + 32, encoding |-> probe.encoding]

StepFramelessX64 ==
    /\ probe.kind = "frameless" /\ probe.arch = "x86_64"
    /\ ~probe.done
    /\ Decoded(x64_step_frameless(probe.registers, FunctionInfo, probe.imm))
    /\ UNCHANGED << unwind_vars, proc >>

StepFramelessArm64 ==
    /\ probe.kind = "frameless" /\ probe.arch = "aarch64"
    /\ ~probe.done
    /\ Decoded(arm64_step_frameless(probe.registers, probe.encoding))
    /\ UNCHANGED << unwind_vars, proc >>

NextFrameless == StepFramelessX64 \/ StepFramelessArm64

SpecFrameless == InitFrameless /\ [][NextFrameless]_vars

FramelessDone(arch) == probe.kind = "frameless" /\ probe.arch = arch /\ probe.done

(* C29: in the frameless compact-unwind modes the new stack pointer is the  *)
(* old stack pointer plus the decoded stack size, whichever callee-saved    *)
(* registers the encoding lists: on x86_64 (STACK_IMMD / STACK_IND)         *)
(* new_rip = *(rsp + stack_size - 8) and new_rsp = rsp + stack_size; on     *)
(* arm64 (FRAMELESS) new_sp = sp + stack_size and new_pc = lr.              *)
C29_FramelessStackPointer ==
    /\ FramelessDone("x86_64") =>
          /\ probe.out.st = "Ok"
          /\ probe.out.v[UNW_X86_64_RIP] = LittleEndian(FramelessSp + probe.stack_size - 8, 8)
          /\ probe.out.v[UNW_X86_64_RSP] = FramelessSp + probe.stack_size
    /\ FramelessDone("aarch64") =>
          /\ probe.out.st = "Ok"
          /\ probe.out.v[UNW_ARM64_SP] = FramelessSp + probe.stack_size
          /\ probe.out.v[UNW_ARM64_PC] = FramelessLr

-----------------------------------------------------------------------------
(* compact unwind: UnwindFuncInfo::find (compact/mod.rs)                    *)
(*                                                                          *)
(* The __unwind_info section is held as the structures find views it as:    *)
(*   section.version, section.common_encodings (a slice of encodings),      *)
(*   section.indexes   the first-level index, a slice of                    *)
(*                     [function_offset, page], page standing for what lies *)
(*                     at second_level_pages_section_offset:                *)
(*   page.kind, page.entries (regular: [function_offset, encoding];         *)
(*                     compressed: encoding_index << 24 | func_offset),     *)
(*   page.encodings    the page specific encodings of a compressed page     *)

UNWIND_SECTION_VERSION == 1
UNWIND_SECOND_LEVEL_REGULAR == 2
UNWIND_SECOND_LEVEL_COMPRESSED == 3

(* Stands for 2^32: above every offset of the model, which are below 2^24   *)
U32Modulus == Pow2(30)

FuncNone == [kind |-> "None"]
FuncSome(start, end, encoding) ==
    [kind |-> "Some", start |-> start, end |-> end, encoding |-> encoding]

(* slice[i], i counted from 0                                               *)
slice_index(slice, i) ==
    IF i >= 0 /\ i < Len(slice) THEN Ok(slice[i + 1]) ELSE Abort("index out of bounds")

(* `high - 1` on usize                                                      *)
usize_minus_one(n) ==
    IF n > 0 THEN Ok(n - 1)
    ELSE IF OverflowChecks THEN Abort("attempt to subtract with overflow")
    ELSE Ok(U64_MAX)

(* a - b on u32, and `(a - b) as u32` on u64                                *)
u32_minus(a, b) ==
    IF a >= b THEN Ok(a - b)
    ELSE IF OverflowChecks THEN Abort("attempt to subtract with overflow")
    ELSE Ok(U32Modulus + a - b)

unwind_info_compressed_entry_func_offset(e) == e % 16777216
unwind_info_compressed_entry_encoding_index(e) == (e \div 16777216) % 256

(* "Do a binary search of top level index": the value of low after the loop *)
RECURSIVE first_level_loop(_, _, _, _, _)
first_level_loop(indexes, target, low, high, last_index) ==
    IF low >= high THEN Ok(low)
    ELSE Bind(slice_index(indexes, (low + high) \div 2), LAMBDA e :
         IF e.function_offset > target
         THEN first_level_loop(indexes, target, low, (low + high) \div 2, last_index)
         ELSE IF (low + high) \div 2 = last_index THEN Ok((low + high) \div 2)
         ELSE Bind(slice_index(indexes, (low + high) \div 2 + 1), LAMBDA n :
              IF n.function_offset > target THEN Ok((low + high) \div 2)
              ELSE first_level_loop(indexes, target, (low + high) \div 2 + 1, high, last_index)))

(* The search of a regular page: [low, func_end] after the loop;            *)
(* c = [base_address, next (l1_next_page_function_offset), target]          *)
RECURSIVE regular_loop(_, _, _, _, _)
regular_loop(l2, c, low, high, func_end) ==
    IF low >= high THEN Ok([low |-> low, func_end |-> func_end])
    ELSE Bind(slice_index(l2, (low + high) \div 2), LAMBDA e :
         IF e.function_offset > c.target
         THEN regular_loop(l2, c, low, (low + high) \div 2, func_end)
         ELSE IF (low + high) \div 2 = Len(l2) - 1
         THEN Ok([low |-> (low + high) \div 2, func_end |-> c.base_address + c.next])
         ELSE Bind(slice_index(l2, (low + high) \div 2 + 1), LAMBDA n :
              IF n.function_offset > c.target
              THEN Ok([low |-> (low + high) \div 2,
                       func_end |-> c.base_address + n.function_offset])
              ELSE regular_loop(l2, c, (low + high) \div 2 + 1, high, func_end)))

(* `if pc < func_start || pc > func_end { return None; }`                   *)
func_range_invalid(pc_, func_start, func_end) == pc_ < func_start \/ pc_ > func_end

(* `if l2_kind == UNWIND_SECOND_LEVEL_REGULAR { .. }`                       *)
find_regular(pc_, l2, c) ==
    Bind(regular_loop(l2, c, 0, Len(l2), 0), LAMBDA r :
    Bind(slice_index(l2, r.low), LAMBDA e :
         IF func_range_invalid(pc_, c.base_address + e.function_offset, r.func_end)
         THEN Ok(FuncNone)
         ELSE Ok(FuncSome(c.base_address + e.function_offset, r.func_end, e.encoding))))

(* The search of a compressed page: the value of low after the loop         *)
RECURSIVE compressed_loop(_, _, _, _, _)
compressed_loop(l2, target, low, high, last_index) ==
    IF low >= high THEN Ok(low)
    ELSE Bind(slice_index(l2, (low + high) \div 2), LAMBDA e :
         IF unwind_info_compressed_entry_func_offset(e) > target
         THEN compressed_loop(l2, target, low, (low + high) \div 2, last_index)
         ELSE IF (low + high) \div 2 = last_index THEN Ok((low + high) \div 2)
         ELSE Bind(slice_index(l2, (low + high) \div 2 + 1), LAMBDA n :
              IF unwind_info_compressed_entry_func_offset(n) > target
              THEN Ok((low + high) \div 2)
              ELSE compressed_loop(l2, target, (low + high) \div 2 + 1, high, last_index)))

(* `let func_end = if low < last { .. } else { .. }`                        *)
compressed_func_end(l2, c, low, last_index) ==
    IF low < last_index
    THEN Bind(slice_index(l2, low + 1), LAMBDA n :
              Ok(c.base_address + c.l1 + unwind_info_compressed_entry_func_offset(n)))
    ELSE Ok(c.base_address + c.next)

(* `let encoding = if encoding_index < header.common_encodings_array_count` *)
compressed_encoding(section, page, encoding_index) ==
    IF encoding_index < Len(section.common_encodings)
    THEN slice_index(section.common_encodings, encoding_index)
    ELSE slice_index(page.encodings, encoding_index - Len(section.common_encodings))

(* `else if l2_kind == UNWIND_SECOND_LEVEL_COMPRESSED { .. }`;              *)
(* c.l1 is l1_function_offset                                               *)
find_compressed(pc_, section, page, c) ==
    Bind(u32_minus(c.target, c.l1), LAMBDA target_function_page_offset :
    Bind(usize_minus_one(Len(page.entries)), LAMBDA last_index :
    Bind(compressed_loop(page.entries, target_function_page_offset, 0, Len(page.entries),
                         last_index), LAMBDA low :
    Bind(slice_index(page.entries, low), LAMBDA e :
    Bind(compressed_func_end(page.entries, c, low, last_index), LAMBDA func_end :
         IF func_range_invalid(pc_, c.base_address + c.l1
                                       + unwind_info_compressed_entry_func_offset(e), func_end)
         THEN Ok(FuncNone)
         ELSE Bind(compressed_encoding(section, page,
                                       unwind_info_compressed_entry_encoding_index(e)),
                   LAMBDA encoding :
                   Ok(FuncSome(c.base_address + c.l1
                                   + unwind_info_compressed_entry_func_offset(e),
                               func_end, encoding))))))))

(* find from `let l1_function_offset = indexes[low].function_offset` on     *)
find_second_level(pc_, section, base_address, target, low) ==
    Bind(slice_index(section.indexes, low), LAMBDA e :
    Bind(slice_index(section.indexes, low + 1), LAMBDA n :
         IF e.page.kind = UNWIND_SECOND_LEVEL_REGULAR
         THEN find_regular(pc_, e.page.entries,
                           [base_address |-> base_address, next |-> n.function_offset,
                            target |-> target])
         ELSE IF e.page.kind = UNWIND_SECOND_LEVEL_COMPRESSED
         THEN find_compressed(pc_, section, e.page,
                              [base_address |-> base_address, next |-> n.function_offset,
                               target |-> target, l1 |-> e.function_offset])
         ELSE Ok(FuncNone)))

(* UnwindFuncInfo::find                                                     *)
UnwindFuncInfo_find(pc_, section, base_address) ==
    IF section.version # UNWIND_SECTION_VERSION THEN Ok(FuncNone)
    ELSE Bind(u32_minus(pc_, base_address), LAMBDA target_function_offset :
         Bind(usize_minus_one(Len(section.indexes)), LAMBDA last_index :
         Bind(first_level_loop(section.indexes, target_function_offset, 0,
                               Len(section.indexes), last_index), LAMBDA low :
              IF low = last_index THEN Ok(FuncNone)
              ELSE find_second_level(pc_, section, base_address, target_function_offset, low))))

(* The harness: an image at ImageBase whose functions are 16 bytes each,    *)
(* the first at offset 16; a page of the index holds one or two of them,    *)
(* and a sentinel entry at the end of the last function closes the index.   *)
(*                                                                          *)
(*   probe.pages     the pages: [kind, count]                               *)
(*   probe.sentinel  whether the index has its sentinel entry: an index     *)
(*                   without pages and sentinel is empty                    *)
(*   probe.pc        the address looked up, in the image                    *)

MaxPages == 2
ImageBase == ProbePcStart
CommonEncodings == << UNWIND_X86_64_MODE_STACK_IMMD + 65536 >>
PageEncodings == << UNWIND_X86_64_MODE_STACK_IMMD + 131072 >>

(* Sequences of up to n pages                                               *)
RECURSIVE PageLists(_)
PageLists(n) ==
    IF n = 0 THEN {<< >>}
    ELSE PageLists(n - 1)
         \cup { << [kind |-> k, count |-> m] >> \o l :
                  k \in {UNWIND_SECOND_LEVEL_REGULAR, UNWIND_SECOND_LEVEL_COMPRESSED},
                  m \in {1, 2}, l \in {x \in PageLists(n - 1) : Len(x) = n - 1} }

(* The offset of the first function of page i (from 1) of pages ps          *)
RECURSIVE PageOffset(_, _)
PageOffset(ps, i) == IF i = 1 THEN 16 ELSE PageOffset(ps, i - 1) + 16 * ps[i - 1].count

(* Function j (from 1) of a page at offset o: regular, or compressed with   *)
(* the first function's encoding common and the second's page specific      *)
PageEntry(kind, o, j) ==
    IF kind = UNWIND_SECOND_LEVEL_REGULAR
    THEN [function_offset |-> o + 16 * (j - 1),
          encoding |-> (CommonEncodings \o PageEncodings)[j]]
    ELSE 16777216 * (j - 1) + 16 * (j - 1)

IndexPage(ps, i) ==
    [ function_offset |-> PageOffset(ps, i),
      page |-> [ kind |-> ps[i].kind,
                 entries |-> [j \in 1 .. ps[i].count |->
                                 PageEntry(ps[i].kind, PageOffset(ps, i), j)],
                 encodings |-> PageEncodings ] ]

SentinelEntry(ps) ==
    [ function_offset |-> PageOffset(ps, Len(ps) + 1),
      page |-> [kind |-> 0, entries |-> << >>, encodings |-> << >>] ]

UnwindInfoSection(ps, sentinel) ==
    [ version |-> UNWIND_SECTION_VERSION, common_encodings |-> CommonEncodings,
      indexes |-> [i \in 1 .. Len(ps) |-> IndexPage(ps, i)]
                  \o (IF sentinel THEN << SentinelEntry(ps) >> ELSE << >>) ]

FindProbes ==
    { [ kind |-> "find", checks |-> checks, pages |-> ps, sentinel |-> sentinel, pc |-> target,
        done |-> FALSE, out |-> << >> ] :
        checks \in BOOLEAN, ps \in PageLists(MaxPages), sentinel \in BOOLEAN,
        target \in ImageBase .. (ImageBase + 16 * (2 * MaxPages + 2)) }

InitFind ==
    /\ platform = "linux_x64"
    /\ build = "slot_intact"
    /\ UnwindAtRest
    /\ proc = NoProcess
    /\ probe \in { p \in FindProbes : p.pages # << >> => p.sentinel }
    /\ mem = Segment(ImageBase, << 0 >>)
    /\ maps = MapsOf(mem)

FindFuncInfo ==
    /\ probe.kind = "find"
    /\ ~probe.done
    /\ Decoded(UnwindFuncInfo_find(probe.pc, UnwindInfoSection(probe.pages, probe.sentinel),
                                   ImageBase))
    /\ UNCHANGED << unwind_vars, proc >>

NextFind == FindFuncInfo

SpecFind == InitFind /\ [][NextFind]_vars

FindDone == probe.kind = "find" /\ probe.done

(* The functions of the image: [start, end, encoding]                       *)
ImageFunctions ==
    UNION { { FuncSome(ImageBase + PageOffset(probe.pages, i) + 16 * (j - 1),
                       ImageBase + PageOffset(probe.pages, i) + 16 * j,
                       (CommonEncodings \o PageEncodings)[j]) :
                j \in 1 .. probe.pages[i].count } : i \in 1 .. Len(probe.pages) }

Containing == { f \in ImageFunctions : f.start <= probe.pc /\ probe.pc < f.end }

(* C30: UnwindFuncInfo::find returns the function that contains pc: it      *)
(* selects the first-level entry with the largest function_offset <= pc -   *)
(* base_address, returns None when that entry is the sentinel last entry or *)
(* when pc lies before the first entry or the index is empty, and every     *)
(* Some(info) it returns satisfies info.start <= pc < info.end.             *)
C30_FindContainingFunction ==
    FindDone =>
        /\ probe.out.st = "Ok"
        /\ IF Containing = {} THEN probe.out.v = FuncNone ELSE probe.out.v \in Containing

=============================================================================
